---- MODULE Spec2Model ----
(***************************************************************************)
(* Model of the terminal service's session lifecycle and pane storage.     *)
(*                                                                         *)
(* State: the terminal_sessions and terminal_panes tables (Store) and the  *)
(* set of tmux sessions named summitflow-<id> (the multiplexer).           *)
(* Request handlers are `async def` functions that call the synchronous    *)
(* storage and tmux helpers without awaiting in between, so one handler    *)
(* is one atomic action.  tmux itself is an external process: its session  *)
(* can disappear at any time (MuxSessionExits), new-session can fail and   *)
(* kill-session can fail (non-zero exit, 10 s timeout).                    *)
(*                                                                         *)
(* Ids are UUIDs in the code; here they are drawn from a counter, so the   *)
(* order of ids is the order of created_at.                                *)
(***************************************************************************)
EXTENDS Integers, FiniteSets, Sequences, TLC

\* ------------------------------------------------------------------ bounds
\* session ids the lifecycle specification may allocate
MaxSessionId == 2
\* session ids the reconciliation specification may allocate
MaxReconcileId == 4
MaxRaceId == 3
MaxEditPaneId == 3
\* session ids the session-number specification may allocate
MaxNumberId == 3
\* bulk layout requests in flight at once
MaxLayoutRequests == 3
\* POST /api/terminal/panes requests the concurrent-creation specification may issue
MaxPaneRequests == 5
\* websocket connections to one session id
MaxSockets == 3
\* session ids the delete / ensure_alive specification may allocate
MaxPairId == 2
\* pane ids the pane specification may allocate
MaxPaneId == 5
\* pane ids / session ids the pane-session specification may allocate
MaxOwnedPaneId == 1
MaxPaneSessionId == 2
MaxResetId == 4
\* days added by one Tick, and the age at which counting stops ("older than that")
TickDays == 8
MaxAge == 8
\* start requests the claude specification may issue
MaxStartRequests == 2
\* octets per os.read, octets read in all, chunks waiting in the reader's queue
MaxChunkLen == 3
MaxStreamLen == 5
MaxQueue == 1
\* reads of the timed reader specification, and where its clocks stop counting
MaxTimedReads == 6
MaxClock == 36
\* runs in a session name handed to validation
MaxNameRuns == 2
\* connections of the bridge specification, and client frames per connection
MaxConnects == 2
MaxFrames == 2

\* ------------------------------------------------------- program constants
MAX_PANES == 4
purge_after_days == 7
FLUSH_INTERVAL_MS == 16
BATCH_SIZE_LIMIT == 4096
MAX_UTF8_BUFFER == 4
\* clock ticks per millisecond
TicksPerMs == 2
\* octets of a bulk run: one short of the batch limit
BulkLen == BATCH_SIZE_LIMIT - 1

NULL == "NULL"
NoPane == 1 - 1
NoId == 1 - 1
\* no stored claude session: None or the empty string
NoName == <<>>

SESSION_MODES == <<"shell", "claude">>
Modes == {SESSION_MODES[i] : i \in 1..Len(SESSION_MODES)}
PaneTypes == {"project", "adhoc"}
Projects == {"p1"}
\* the (name, working_dir) pairs of the create requests
CreateRequests == {<<"n1", "/w1">>, <<"n2", "/w2">>}

SessionIds == 1..MaxSessionId
\* sessions addressed by claude requests: 1 has a row, 2 has none
ClaudeIds == {1, 2}
NoVerif == [scheduled |-> [i \in ClaudeIds |-> 0], pending |-> [i \in ClaudeIds |-> 0]]
PaneIds == 1..MaxPaneId

VARIABLES
    sessions,   \* terminal_sessions: id -> row
    panes,      \* terminal_panes: id -> row
    mux,        \* tmux sessions summitflow-<id>: id -> start directory
    nextId,     \* next fresh session id (gen_random_uuid)
    nextPane,   \* next fresh pane id
    last,       \* the last operation and what it returned
    requests,   \* POST .../claude/start requests in flight: request -> position
    claude_live, \* session ids whose tmux session claude-<id> runs claude
    verif,      \* _background_verify_claude_start tasks: scheduled and pending
    reader,     \* one read_pty_output task: its locals, what it read and sent
    bridge,     \* one websocket bridge of session 1: PTY, child, reader task, registry
    probe,      \* a session name handed to validate_session_name, and the answer
    tasks,      \* handlers suspended at an await: task -> its locals and position
    registry    \* api/terminal.py _sessions: session id -> entry of a bridge

vars == <<sessions, panes, mux, nextId, nextPane, last, requests, claude_live, verif, reader, bridge, probe, tasks, registry>>

\* what the session and pane handlers never touch
extVars == <<requests, claude_live, verif, reader, bridge, probe, tasks, registry>>

Max(S) == CHOOSE x \in S : \A y \in S : y <= x
Min(S) == CHOOSE x \in S : \A y \in S : x <= y
MinOf(a, b) == IF a <= b THEN a ELSE b

\* the sequences over A of length at most n
RECURSIVE SeqsUpTo(_, _)
SeqsUpTo(A, n) ==
    IF n = 0 THEN {<<>>}
    ELSE LET shorter == SeqsUpTo(A, n - 1)
         IN  shorter \cup {Append(s, a) : s \in shorter, a \in A}

\* ------------------------------------------------------------------ Store

\* variant: the SELECT filters by project only
NextSessionNumber_IgnoresMode(S, project_id, mode) ==
    IF project_id = NULL THEN 1
    ELSE Max({S[i].session_number :
                i \in {j \in DOMAIN S : S[j].project_id = project_id /\ S[j].is_alive}}
             \cup {0}) + 1

\* SELECT COALESCE(MAX(session_number), 0) + 1 ... WHERE project_id, mode, is_alive
NextSessionNumber(S, project_id, mode) ==
    IF project_id = NULL THEN 1
    ELSE Max({S[i].session_number :
                i \in {j \in DOMAIN S : /\ S[j].project_id = project_id
                                        /\ S[j].mode = mode
                                        /\ S[j].is_alive}} \cup {0}) + 1

store_create_session(S, id, name, project_id, working_dir, user_id, mode, pane_id) ==
    S @@ (id :> [name |-> name,
                 user_id |-> user_id,
                 project_id |-> project_id,
                 working_dir |-> working_dir,
                 mode |-> mode,
                 session_number |-> NextSessionNumber(S, project_id, mode),
                 is_alive |-> TRUE,
                 age |-> 0,
                 pane_id |-> pane_id,
                 claude_state |-> "not_started",
                 last_claude_session |-> NoName])

update_session(S, id, fields) ==
    LET allowed_fields == {"name", "display_order", "is_alive", "working_dir"}
        update_fields == (DOMAIN fields) \cap allowed_fields
    IN  IF id \notin DOMAIN S \/ update_fields = {} THEN S
        ELSE [S EXCEPT ![id] =
                [f \in DOMAIN S[id] |->
                    IF f \in update_fields THEN fields[f] ELSE S[id][f]]]

store_delete_session(S, id) == [i \in (DOMAIN S) \ {id} |-> S[i]]

mark_dead(S, id) == update_session(S, id, [is_alive |-> FALSE])

\* DELETE ... WHERE is_alive = false AND last_accessed_at < now - days
purge_dead_sessions(S, older_than_days) ==
    [i \in {j \in DOMAIN S : ~(~S[j].is_alive /\ S[j].age > older_than_days)} |-> S[i]]

\* ORDER BY created_at DESC LIMIT 1 among dead rows of (project, mode); NoId if none
get_dead_session_by_project(S, project_id, mode) ==
    LET dead == {j \in DOMAIN S : /\ S[j].project_id = project_id
                                  /\ S[j].mode = mode
                                  /\ ~S[j].is_alive}
    IN  IF dead = {} THEN NoId ELSE Max(dead)

\* -------------------------------------------------------------------- tmux

tmux_session_exists(M, id) == id \in DOMAIN M

list_tmux_sessions(M) == DOMAIN M

\* new-session -c working_dir succeeds (ok) or fails; an existing session is only
\* re-configured and keeps its directory
create_tmux_session(M, id, working_dir, ok) ==
    IF tmux_session_exists(M, id) THEN [mux |-> M, raised |-> FALSE]
    ELSE IF ok THEN [mux |-> M @@ (id :> working_dir), raised |-> FALSE]
    ELSE [mux |-> M, raised |-> TRUE]

\* kill-session: ok = the command exits 0 when the session exists.  A missing
\* session ("session not found") and any other failure leave tmux unchanged and
\* return False (ignore_missing=True swallows both).
kill_tmux_session(M, id, ok) ==
    IF id \in DOMAIN M /\ ok
    THEN [mux |-> [i \in (DOMAIN M) \ {id} |-> M[i]], killed |-> TRUE]
    ELSE [mux |-> M, killed |-> FALSE]

\* ---------------------------------------------------------- LifecycleCore

\* variant: a failed resurrection puts the row back as it was
resurrect_dead_session_RestoresRow(S, M, dead_id, name, working_dir, muxOk) ==
    LET S1 == update_session(S, dead_id,
                  [name |-> name, working_dir |-> working_dir, is_alive |-> TRUE])
        c == create_tmux_session(M, dead_id, working_dir, muxOk)
    IN  IF c.raised
        THEN [store |-> S, mux |-> c.mux, ret |-> NoId,
              raised |-> TRUE, path |-> "resurrect", inserted |-> FALSE]
        ELSE [store |-> S1, mux |-> c.mux, ret |-> dead_id,
              raised |-> FALSE, path |-> "resurrect", inserted |-> FALSE]

\* variant: a failed resurrection deletes the row instead of marking it dead
resurrect_dead_session_DeletesOnFailure(S, M, dead_id, name, working_dir, muxOk) ==
    LET S1 == update_session(S, dead_id,
                  [name |-> name, working_dir |-> working_dir, is_alive |-> TRUE])
        c == create_tmux_session(M, dead_id, working_dir, muxOk)
    IN  IF c.raised
        THEN [store |-> store_delete_session(S1, dead_id), mux |-> c.mux, ret |-> NoId,
              raised |-> TRUE, path |-> "resurrect", inserted |-> FALSE]
        ELSE [store |-> S1, mux |-> c.mux, ret |-> dead_id,
              raised |-> FALSE, path |-> "resurrect", inserted |-> FALSE]

resurrect_dead_session(S, M, dead_id, name, working_dir, muxOk) ==
    LET S1 == update_session(S, dead_id,
                  [name |-> name, working_dir |-> working_dir, is_alive |-> TRUE])
        c == create_tmux_session(M, dead_id, working_dir, muxOk)
    IN  IF c.raised
        THEN [store |-> mark_dead(S1, dead_id), mux |-> c.mux, ret |-> NoId,
              raised |-> TRUE, path |-> "resurrect", inserted |-> FALSE]
        ELSE [store |-> S1, mux |-> c.mux, ret |-> dead_id,
              raised |-> FALSE, path |-> "resurrect", inserted |-> FALSE]

\* variant: the inserted row is left behind when new-session fails
create_session_NoRollback(S, M, newId, name, project_id, working_dir, user_id, mode, muxOk) ==
    LET dead_id == IF project_id # NULL
                   THEN get_dead_session_by_project(S, project_id, mode)
                   ELSE NoId
    IN  IF dead_id # NoId
        THEN resurrect_dead_session(S, M, dead_id, name, working_dir, muxOk)
        ELSE LET S1 == store_create_session(S, newId, name, project_id, working_dir,
                                            user_id, mode, NoPane)
                 c == create_tmux_session(M, newId, working_dir, muxOk)
             IN  [store |-> S1, mux |-> c.mux,
                  ret |-> IF c.raised THEN NoId ELSE newId,
                  raised |-> c.raised, path |-> "new", inserted |-> TRUE]

create_session(S, M, newId, name, project_id, working_dir, user_id, mode, muxOk) ==
    LET dead_id == IF project_id # NULL
                   THEN get_dead_session_by_project(S, project_id, mode)
                   ELSE NoId
    IN  IF dead_id # NoId
        THEN resurrect_dead_session(S, M, dead_id, name, working_dir, muxOk)
        ELSE LET S1 == store_create_session(S, newId, name, project_id, working_dir,
                                            user_id, mode, NoPane)
                 c == create_tmux_session(M, newId, working_dir, muxOk)
             IN  IF c.raised
                 THEN [store |-> store_delete_session(S1, newId), mux |-> c.mux,
                       ret |-> NoId, raised |-> TRUE, path |-> "new", inserted |-> TRUE]
                 ELSE [store |-> S1, mux |-> c.mux, ret |-> newId,
                       raised |-> FALSE, path |-> "new", inserted |-> TRUE]

\* services/lifecycle.py create_session: insert, new-session, roll back on failure
lifecycle_create_session(S, M, newId, name, project_id, working_dir, user_id, mode, muxOk) ==
    LET S1 == store_create_session(S, newId, name, project_id, working_dir,
                                   user_id, mode, NoPane)
        c == create_tmux_session(M, newId, working_dir, muxOk)
    IN  IF c.raised
        THEN [store |-> store_delete_session(S1, newId), mux |-> c.mux,
              ret |-> NoId, raised |-> TRUE]
        ELSE [store |-> S1, mux |-> c.mux, ret |-> newId, raised |-> FALSE]

\* variant: the row is kept when kill-session did not kill anything
delete_session_KeepsRowUnlessKilled(S, M, id, killOk) ==
    LET k == kill_tmux_session(M, id, killOk)
    IN  [store |-> IF k.killed THEN store_delete_session(S, id) ELSE S,
         mux |-> k.mux, ret |-> TRUE, killed |-> k.killed]

delete_session(S, M, id, killOk) ==
    LET k == kill_tmux_session(M, id, killOk)
    IN  [store |-> store_delete_session(S, id), mux |-> k.mux, ret |-> TRUE,
         killed |-> k.killed]

\* variant: a re-created tmux session does not set is_alive
ensure_session_alive_NoFlagOnRecreate(S, M, id, muxOk) ==
    IF id \notin DOMAIN S THEN [store |-> S, mux |-> M, ret |-> FALSE, created |-> FALSE]
    ELSE IF tmux_session_exists(M, id)
    THEN [store |-> IF ~S[id].is_alive
                    THEN update_session(S, id, [is_alive |-> TRUE]) ELSE S,
          mux |-> M, ret |-> TRUE, created |-> FALSE]
    ELSE LET c == create_tmux_session(M, id, S[id].working_dir, muxOk)
         IN  IF c.raised
             THEN [store |-> mark_dead(S, id), mux |-> c.mux, ret |-> FALSE,
                   created |-> TRUE]
             ELSE [store |-> S, mux |-> c.mux, ret |-> TRUE, created |-> TRUE]

\* variant: a failed re-creation leaves the row as it was
ensure_session_alive_NoMarkDead(S, M, id, muxOk) ==
    IF id \notin DOMAIN S THEN [store |-> S, mux |-> M, ret |-> FALSE, created |-> FALSE]
    ELSE IF tmux_session_exists(M, id)
    THEN [store |-> IF ~S[id].is_alive
                    THEN update_session(S, id, [is_alive |-> TRUE]) ELSE S,
          mux |-> M, ret |-> TRUE, created |-> FALSE]
    ELSE LET c == create_tmux_session(M, id, S[id].working_dir, muxOk)
         IN  IF c.raised
             THEN [store |-> S, mux |-> c.mux, ret |-> FALSE, created |-> TRUE]
             ELSE [store |-> update_session(S, id, [is_alive |-> TRUE]),
                   mux |-> c.mux, ret |-> TRUE, created |-> TRUE]

ensure_session_alive(S, M, id, muxOk) ==
    IF id \notin DOMAIN S THEN [store |-> S, mux |-> M, ret |-> FALSE, created |-> FALSE]
    ELSE IF tmux_session_exists(M, id)
    THEN [store |-> IF ~S[id].is_alive
                    THEN update_session(S, id, [is_alive |-> TRUE]) ELSE S,
          mux |-> M, ret |-> TRUE, created |-> FALSE]
    ELSE LET c == create_tmux_session(M, id, S[id].working_dir, muxOk)
         IN  IF c.raised
             THEN [store |-> mark_dead(S, id), mux |-> c.mux, ret |-> FALSE,
                   created |-> TRUE]
             ELSE [store |-> update_session(S, id, [is_alive |-> TRUE]),
                   mux |-> c.mux, ret |-> TRUE, created |-> TRUE]

\* delete and re-create with the row's name, project, working_dir, user and mode
reset_session(S, M, newId, id, killOk, muxOk) ==
    IF id \notin DOMAIN S
    THEN [store |-> S, mux |-> M, ret |-> NoId, raised |-> FALSE, found |-> FALSE]
    ELSE LET d == delete_session(S, M, id, killOk)
             c == lifecycle_create_session(d.store, d.mux, newId, S[id].name,
                      S[id].project_id, S[id].working_dir, S[id].user_id,
                      S[id].mode, muxOk)
         IN  [store |-> c.store, mux |-> c.mux, ret |-> c.ret, raised |-> c.raised,
              found |-> TRUE]

\* ---------------------------------------------------------- LifecycleBatch

\* lifecycle_batch.reset_session: create_session(...) is called with a pane_id
\* keyword that lifecycle_core.create_session does not accept, so the call
\* raises TypeError after the session has been deleted
lifecycle_batch_reset_session(S, M, id, killOk) ==
    IF id \notin DOMAIN S
    THEN [store |-> S, mux |-> M, ret |-> NoId, raised |-> FALSE, found |-> FALSE]
    ELSE LET d == delete_session(S, M, id, killOk)
         IN  [store |-> d.store, mux |-> d.mux, ret |-> NoId, raised |-> TRUE,
              found |-> TRUE]

\* SELECT ... WHERE project_id = %s AND is_alive = true ORDER BY created_at
get_all_project_sessions(S, project_id) ==
    {i \in DOMAIN S : S[i].project_id = project_id /\ S[i].is_alive}

\* the first row of each mode in created_at order; NoId if the mode has none
session_info(S, all_sessions, mode) ==
    LET of_mode == {i \in all_sessions : S[i].mode = mode}
    IN  IF of_mode = {} THEN NoId ELSE Min(of_mode)

\* for session in all_sessions: delete_session(session["id"])
RECURSIVE delete_sessions(_, _, _, _)
delete_sessions(S, M, ids, failK) ==
    IF ids = {} THEN [store |-> S, mux |-> M]
    ELSE LET id == Min(ids)
             d == delete_session(S, M, id, id \notin failK)
         IN  delete_sessions(d.store, d.mux, ids \ {id}, failK)

\* for mode in SESSION_MODES: create_session(...); k is the position in the list,
\* S0 the Store before the deletes, result the ids created so far
RECURSIVE recreate_sessions(_, _, _, _, _, _, _, _, _, _)
recreate_sessions(S, M, newId, k, S0, all_sessions, project_id, working_dir, muxOk, result) ==
    IF k > Len(SESSION_MODES)
    THEN [store |-> S, mux |-> M, ret |-> result, raised |-> FALSE, nextId |-> newId]
    ELSE LET mode == SESSION_MODES[k]
             info == session_info(S0, all_sessions, mode)
             new_working_dir == IF working_dir # NULL THEN working_dir
                                ELSE IF info = NoId THEN NULL ELSE S0[info].working_dir
             name == IF info = NoId THEN "Project" ELSE S0[info].name
             user_id == IF info = NoId THEN NULL ELSE S0[info].user_id
             c == create_session(S, M, newId, name, project_id, new_working_dir,
                                 user_id, mode, muxOk[mode])
             used == IF c.inserted THEN newId + 1 ELSE newId
         IN  IF c.raised
             THEN [store |-> c.store, mux |-> c.mux, ret |-> result, raised |-> TRUE,
                   nextId |-> used]
             ELSE recreate_sessions(c.store, c.mux, used, k + 1, S0, all_sessions,
                                    project_id, working_dir, muxOk,
                                    [result EXCEPT ![mode] = c.ret])

\* variant: only the first session of each mode is deleted, duplicates stay
reset_project_sessions_CanonicalTwo(S, M, newId, project_id, working_dir, failK, muxOk) ==
    LET all_sessions == get_all_project_sessions(S, project_id)
        canonical == {session_info(S, all_sessions, mode) : mode \in Modes} \ {NoId}
        d == delete_sessions(S, M, canonical, failK)
        r == recreate_sessions(d.store, d.mux, newId, 1, S, all_sessions, project_id,
                               working_dir, muxOk, [mode \in Modes |-> NoId])
    IN  [store |-> r.store, mux |-> r.mux, ret |-> r.ret, raised |-> r.raised,
         nextId |-> r.nextId, before |-> all_sessions]

reset_project_sessions(S, M, newId, project_id, working_dir, failK, muxOk) ==
    LET all_sessions == get_all_project_sessions(S, project_id)
        d == delete_sessions(S, M, all_sessions, failK)
        r == recreate_sessions(d.store, d.mux, newId, 1, S, all_sessions, project_id,
                               working_dir, muxOk, [mode \in Modes |-> NoId])
    IN  [store |-> r.store, mux |-> r.mux, ret |-> r.ret, raised |-> r.raised,
         nextId |-> r.nextId, before |-> all_sessions]

\* ------------------------------------------------------------- Reconciler

\* the per-row loop of reconcile_on_startup over the rows read at its start
RECURSIVE reconcile_rows(_, _, _)
reconcile_rows(S, M, ids) ==
    IF ids = {} THEN S
    ELSE LET id == Min(ids)
             S1 == IF id \in list_tmux_sessions(M)
                   THEN IF ~S[id].is_alive
                        THEN update_session(S, id, [is_alive |-> TRUE]) ELSE S
                   ELSE IF S[id].is_alive THEN mark_dead(S, id) ELSE S
         IN  reconcile_rows(S1, M, ids \ {id})

\* variant: no orphan is killed (reconcile_on_startup of services/lifecycle.py)
kill_orphan_tmux_sessions_KillsNone(M, db_session_ids, failK) ==
    [mux |-> M, killed |-> 0]

\* kill-session for every tmux session without a row; failK = the kills that fail
kill_orphan_tmux_sessions(M, db_session_ids, failK) ==
    LET orphans == list_tmux_sessions(M) \ db_session_ids
        killed == orphans \ failK
    IN  [mux |-> [i \in (DOMAIN M) \ killed |-> M[i]], killed |-> Cardinality(killed)]

\* tmux as the second list_tmux_sessions call (in _kill_orphan_tmux_sessions)
\* finds it: the sessions of the first listing plus those started since
tmux_after(M, started) == M @@ [i \in started |-> "/w1"]

\* variant: the purge runs before the rows are flipped
reconcile_on_startup_PurgesFirst(S, M, days, failK, started) ==
    LET S1 == purge_dead_sessions(S, days)
        S2 == reconcile_rows(S1, M, DOMAIN S1)
        k == kill_orphan_tmux_sessions(tmux_after(M, started), DOMAIN S2, failK)
    IN  [store |-> S2, mux |-> k.mux,
         stats |-> [marked_alive |-> Cardinality({i \in DOMAIN S1 :
                                        i \in DOMAIN M /\ ~S1[i].is_alive}),
                    marked_dead |-> Cardinality({i \in DOMAIN S1 :
                                        i \notin DOMAIN M /\ S1[i].is_alive}),
                    purged |-> Cardinality(DOMAIN S) - Cardinality(DOMAIN S1),
                    orphans_killed |-> k.killed]]

\* variant: the ids for orphan detection are the rows read before the purge
reconcile_on_startup_IdsBeforePurge(S, M, days, failK, started) ==
    LET S1 == reconcile_rows(S, M, DOMAIN S)
        S2 == purge_dead_sessions(S1, days)
        k == kill_orphan_tmux_sessions(tmux_after(M, started), DOMAIN S1, failK)
    IN  [store |-> S2, mux |-> k.mux,
         stats |-> [marked_alive |-> Cardinality({i \in DOMAIN S : i \in DOMAIN M /\ ~S[i].is_alive}),
                    marked_dead |-> Cardinality({i \in DOMAIN S : i \notin DOMAIN M /\ S[i].is_alive}),
                    purged |-> Cardinality(DOMAIN S1) - Cardinality(DOMAIN S2),
                    orphans_killed |-> k.killed]]

\* started: tmux sessions that come up between the listing at the start of the
\* run and the listing of the orphan kill
reconcile_on_startup(S, M, days, failK, started) ==
    LET S1 == reconcile_rows(S, M, DOMAIN S)
        S2 == purge_dead_sessions(S1, days)
        k == kill_orphan_tmux_sessions(tmux_after(M, started), DOMAIN S2, failK)
    IN  [store |-> S2, mux |-> k.mux,
         stats |-> [marked_alive |-> Cardinality({i \in DOMAIN S : i \in DOMAIN M /\ ~S[i].is_alive}),
                    marked_dead |-> Cardinality({i \in DOMAIN S : i \notin DOMAIN M /\ S[i].is_alive}),
                    purged |-> Cardinality(DOMAIN S1) - Cardinality(DOMAIN S2),
                    orphans_killed |-> k.killed]]

\* ------------------------------------------------------------ PaneManager

\* variant: the count misses one pane
count_panes_MissesOne(P) == IF DOMAIN P = {} THEN 0 ELSE Cardinality(DOMAIN P) - 1

count_panes(P) == Cardinality(DOMAIN P)

\* f"Project: {project_id}" if project_id else pane_name
PaneSessionName(project_id, pane_name) ==
    IF project_id # NULL THEN "Project: " \o project_id ELSE pane_name

\* SELECT COALESCE(MAX(session_number), 0) + 1 ... WHERE project_id AND is_alive
PaneSessionNumber(S, project_id) ==
    IF project_id = NULL THEN 1
    ELSE Max({S[i].session_number :
                i \in {j \in DOMAIN S : S[j].project_id = project_id /\ S[j].is_alive}}
             \cup {0}) + 1

PaneSessionRow(S, pane_id, pane_name, project_id, working_dir, mode) ==
    [name |-> PaneSessionName(project_id, pane_name),
     user_id |-> NULL,
     project_id |-> project_id,
     working_dir |-> working_dir,
     mode |-> mode,
     session_number |-> PaneSessionNumber(S, project_id),
     is_alive |-> TRUE,
     age |-> 0,
     pane_id |-> pane_id,
     claude_state |-> "not_started",
     last_claude_session |-> NoName]

\* the inserts of create_pane_with_sessions that can fail
InsertFailures == {"none", "pane", "shell", "claude"}

\* variant: every insert is committed on its own, a later failure undoes nothing
create_pane_with_sessions_NoRollback(P, S, paneId, shellId, claudeId, pane_type, pane_name, project_id, working_dir, failAt) ==
    IF \/ (pane_type = "project" /\ project_id = NULL)
       \/ (pane_type = "adhoc" /\ project_id # NULL)
    THEN [panes |-> P, store |-> S, raised |-> TRUE]
    ELSE LET pane_order == IF DOMAIN P = {} THEN 0
                           ELSE Max({P[i].pane_order : i \in DOMAIN P}) + 1
             P1 == P @@ (paneId :> [pane_type |-> pane_type,
                                    project_id |-> project_id,
                                    pane_order |-> pane_order,
                                    pane_name |-> pane_name,
                                    active_mode |-> "shell"])
             S1 == S @@ (shellId :> PaneSessionRow(S, paneId, pane_name, project_id,
                                                   working_dir, "shell"))
             S2 == IF pane_type = "project"
                   THEN S1 @@ (claudeId :> PaneSessionRow(S, paneId, pane_name,
                                                project_id, working_dir, "claude"))
                   ELSE S1
         IN  IF failAt = "pane" THEN [panes |-> P, store |-> S, raised |-> TRUE]
             ELSE IF failAt = "shell" THEN [panes |-> P1, store |-> S, raised |-> TRUE]
             ELSE IF failAt = "claude" /\ pane_type = "project"
             THEN [panes |-> P1, store |-> S1, raised |-> TRUE]
             ELSE [panes |-> P1, store |-> S2, raised |-> FALSE]

\* one transaction: pane row, shell session, and for a project pane a claude
\* session; an exception from an insert (failAt) leaves the connection block
\* before conn.commit() and the transaction is rolled back
create_pane_with_sessions(P, S, paneId, shellId, claudeId, pane_type, pane_name, project_id, working_dir, failAt) ==
    IF \/ (pane_type = "project" /\ project_id = NULL)
       \/ (pane_type = "adhoc" /\ project_id # NULL)
    THEN [panes |-> P, store |-> S, raised |-> TRUE]
    ELSE LET pane_order == IF DOMAIN P = {} THEN 0
                           ELSE Max({P[i].pane_order : i \in DOMAIN P}) + 1
             P1 == P @@ (paneId :> [pane_type |-> pane_type,
                                    project_id |-> project_id,
                                    pane_order |-> pane_order,
                                    pane_name |-> pane_name,
                                    active_mode |-> "shell"])
             S1 == S @@ (shellId :> PaneSessionRow(S, paneId, pane_name, project_id,
                                                   working_dir, "shell"))
             S2 == IF pane_type = "project"
                   THEN S1 @@ (claudeId :> PaneSessionRow(S, paneId, pane_name,
                                                project_id, working_dir, "claude"))
                   ELSE S1
         IN  IF \/ failAt \in {"pane", "shell"}
                \/ (failAt = "claude" /\ pane_type = "project")
             THEN [panes |-> P, store |-> S, raised |-> TRUE]
             ELSE [panes |-> P1, store |-> S2, raised |-> FALSE]

\* variant: the foreign key does not cascade, the pane's sessions stay
delete_pane_NoCascade(P, S, pane_id) ==
    IF pane_id \notin DOMAIN P THEN [panes |-> P, store |-> S, deleted |-> FALSE]
    ELSE [panes |-> [i \in (DOMAIN P) \ {pane_id} |-> P[i]], store |-> S, deleted |-> TRUE]

\* DELETE FROM terminal_panes; pane_id REFERENCES terminal_panes(id) ON DELETE CASCADE
delete_pane(P, S, pane_id) ==
    IF pane_id \notin DOMAIN P THEN [panes |-> P, store |-> S, deleted |-> FALSE]
    ELSE [panes |-> [i \in (DOMAIN P) \ {pane_id} |-> P[i]],
          store |-> [i \in {j \in DOMAIN S : S[j].pane_id # pane_id} |-> S[i]],
          deleted |-> TRUE]

\* variant: the second UPDATE reads pane a's order after the first UPDATE wrote it
swap_pane_positions_Sequential(P, pane_id_a, pane_id_b) ==
    IF Cardinality({pane_id_a, pane_id_b} \cap DOMAIN P) # 2
    THEN [panes |-> P, ret |-> FALSE]
    ELSE [panes |-> [P EXCEPT ![pane_id_a].pane_order = P[pane_id_b].pane_order], ret |-> TRUE]

\* SELECT id, pane_order WHERE id IN (a, b); fewer than two rows -> False;
\* otherwise two UPDATEs with the orders read before, one commit
swap_pane_positions(P, pane_id_a, pane_id_b) ==
    IF Cardinality({pane_id_a, pane_id_b} \cap DOMAIN P) # 2
    THEN [panes |-> P, ret |-> FALSE]
    ELSE LET order_a == P[pane_id_a].pane_order
             order_b == P[pane_id_b].pane_order
         IN  [panes |-> [P EXCEPT ![pane_id_a].pane_order = order_b,
                                  ![pane_id_b].pane_order = order_a],
              ret |-> TRUE]

\* UPDATE terminal_panes SET <allowed fields> WHERE id = pane_id RETURNING ...;
\* fields is a function from column names to values, other keys are dropped
update_pane(P, pane_id, fields) ==
    LET allowed_fields == {"pane_name", "pane_order", "active_mode"}
        update_fields == (DOMAIN fields) \cap allowed_fields
    IN  IF pane_id \notin DOMAIN P THEN [panes |-> P, found |-> FALSE]
        ELSE [panes |-> [P EXCEPT ![pane_id] =
                            [k \in DOMAIN P[pane_id] |->
                                IF k \in update_fields THEN fields[k] ELSE P[pane_id][k]]],
              found |-> TRUE]

\* variant: every active mode is accepted for every pane type
active_mode_rejected_Never(pane_type, active_mode) == FALSE

\* PATCH /api/terminal/panes/{pane_id}: "For adhoc panes, only shell is allowed"
active_mode_rejected(pane_type, active_mode) ==
    pane_type = "adhoc" /\ active_mode = "claude"

\* the update_fields dict the PATCH handler builds from the request
request_update_fields(pane_name, active_mode) ==
    LET names == (IF pane_name # NULL THEN {"pane_name"} ELSE {})
                 \cup (IF active_mode # NULL THEN {"active_mode"} ELSE {})
    IN  [k \in names |-> IF k = "pane_name" THEN pane_name ELSE active_mode]


\* variant: the limit check lets one more pane through
pane_limit_reached_OffByOne(current_count) == current_count > MAX_PANES

\* the pane-limit check of POST /api/terminal/panes
pane_limit_reached(current_count) == current_count >= MAX_PANES

\* -------------------------------------------------------------- PtyReader
\* Bytes are classes of octets: "A" an ASCII octet, "L" the lead octet of a
\* two-octet sequence (0xC3), "c" a continuation octet (0xA9), "X" an octet that
\* is valid nowhere (0xFF), "Z" the text "[exited]", "Zh" and "Zt" its two halves
\* "[exi" and "ted]", "B" a run of BulkLen ASCII octets.  Characters: "A", "Z",
\* "Zh", "Zt", "B", "E" (the two-octet character) and "?" (U+FFFD).

CharOf(b) == IF b \in {"A", "Z", "B", "Zh", "Zt"} THEN b ELSE "?"

\* bytes.decode("utf-8"): the 1-based index of the first octet that does not
\* decode (UnicodeDecodeError.start + 1), 0 when the whole input decodes
RECURSIVE StrictErrorFrom(_, _)
StrictErrorFrom(bs, i) ==
    IF i > Len(bs) THEN 0
    ELSE IF bs[i] \in {"A", "Z", "B", "Zh", "Zt"} THEN StrictErrorFrom(bs, i + 1)
    ELSE IF bs[i] = "L" /\ i < Len(bs) /\ bs[i + 1] = "c" THEN StrictErrorFrom(bs, i + 2)
    ELSE i

\* bytes.decode("utf-8", errors="replace")
RECURSIVE DecodeReplaceFrom(_, _)
DecodeReplaceFrom(bs, i) ==
    IF i > Len(bs) THEN <<>>
    ELSE IF bs[i] = "L" /\ i < Len(bs) /\ bs[i + 1] = "c"
    THEN <<"E">> \o DecodeReplaceFrom(bs, i + 2)
    ELSE <<CharOf(bs[i])>> \o DecodeReplaceFrom(bs, i + 1)

DecodeReplace(bs) == DecodeReplaceFrom(bs, 1)

\* len(str)
RECURSIVE TextLen(_)
TextLen(t) == IF t = <<>> THEN 0
              ELSE (IF Head(t) = "B" THEN BulkLen ELSE 1) + TextLen(Tail(t))

\* "[exited]" in batch_buffer
HasExited(t) ==
    \E i \in 1..Len(t) : \/ t[i] = "Z"
                          \/ (i < Len(t) /\ t[i] = "Zh" /\ t[i + 1] = "Zt")

\* variant: the undecodable rest of a read is held wherever the error is, uncapped
decode_chunk_HoldsAnyTail(utf8_buffer, chunk) ==
    LET output == utf8_buffer \o chunk
        e == StrictErrorFrom(output, 1)
    IN  IF e = 0 THEN [decoded |-> DecodeReplace(output), utf8_buffer |-> <<>>]
        ELSE [decoded |-> DecodeReplace(SubSeq(output, 1, e - 1)),
              utf8_buffer |-> SubSeq(output, e, Len(output))]

\* the decode step of read_pty_output: prepend the held octets, decode, hold an
\* undecodable tail of at most 3 octets, otherwise replace
decode_chunk(utf8_buffer, chunk) ==
    LET output == utf8_buffer \o chunk
        e == StrictErrorFrom(output, 1)
        tail == SubSeq(output, e, Len(output))
    IN  IF e = 0 THEN [decoded |-> DecodeReplace(output), utf8_buffer |-> <<>>]
        ELSE IF e - 1 >= Len(output) - 3
        THEN [decoded |-> DecodeReplace(SubSeq(output, 1, e - 1)),
              utf8_buffer |-> IF Len(tail) > MAX_UTF8_BUFFER THEN <<>> ELSE tail]
        ELSE [decoded |-> DecodeReplace(output), utf8_buffer |-> <<>>]

\* wait_time = max(0.001, (FLUSH_INTERVAL_MS - time_since_flush) / 1000), in ticks
wait_time(since_flush) ==
    Max({1 * TicksPerMs, FLUSH_INTERVAL_MS * TicksPerMs - since_flush})

\* flush_batch: send the batch as one text frame; False once "[exited]" went out
flush_batch(rd) ==
    IF rd.batch_buffer # <<>>
    THEN IF HasExited(rd.batch_buffer)
         THEN [rd EXCEPT !.sent = @ \o rd.batch_buffer, !.batch_buffer = <<>>,
                         !.age = 0, !.continue = FALSE]
         ELSE [rd EXCEPT !.sent = @ \o rd.batch_buffer, !.batch_buffer = <<>>,
                         !.age = 0, !.since_flush = 0, !.continue = TRUE]
    ELSE [rd EXCEPT !.since_flush = 0, !.continue = TRUE]

\* back at the top of the loop, or out of it
loop_or_break(rd) ==
    IF rd.continue THEN [rd EXCEPT !.wait_left = wait_time(rd.since_flush)]
    ELSE [rd EXCEPT !.pc = "done"]

Reader0 ==
    [pc |-> "running", stream |-> <<>>, queue |-> <<>>, utf8_buffer |-> <<>>,
     batch_buffer |-> <<>>, sent |-> <<>>, since_flush |-> 0,
     wait_left |-> wait_time(0), age |-> 0, continue |-> TRUE]

\* ------------------------------------------------------------ SessionNames
\* A name is a sequence of runs [c, n]: the character c repeated n times.
\* Characters: "a" (a letter or digit), "_", "-", ":", "SP" (space), "LF"
\* (newline), ";" (a shell metacharacter).

RECURSIVE NameLen(_)
NameLen(name) == IF name = <<>> THEN 0 ELSE Head(name).n + NameLen(Tail(name))

\* the character class [a-zA-Z0-9_\-:]
InNameClass(c) == c \in {"a", "_", "-", ":"}

\* _SESSION_NAME_PATTERN.match(name) for ^[a-zA-Z0-9_\-:]+$ : "$" matches at the
\* end of the string and also just before a newline that ends the string
SESSION_NAME_PATTERN_match(name) ==
    LET k == Len(name)
        body == IF k >= 1 /\ name[k].c = "LF" /\ name[k].n = 1
                THEN SubSeq(name, 1, k - 1) ELSE name
    IN  body # <<>> /\ \A i \in 1..Len(body) : InNameClass(body[i].c)

validate_session_name(name) == SESSION_NAME_PATTERN_match(name) /\ NameLen(name) < 256

NameRuns == {[c |-> ch, n |-> k] : ch \in {"a", "_", "-", ":", "SP", "LF", ";"},
                                   k \in {1, 2, 254}}

Probe0 == [name |-> <<>>, asked |-> FALSE, ret |-> FALSE]

\* ------------------------------------------------------------------ Bridge

\* f"summitflow-{session_id}", "claude-" + basename(working_dir), and a name
\* that matches claude-\S+ without being a valid session name ("claude-w1;id")
BaseName == <<[c |-> "a", n |-> 10], [c |-> "-", n |-> 1], [c |-> "a", n |-> 1]>>
ProjectClaudeName == <<[c |-> "a", n |-> 6], [c |-> "-", n |-> 1], [c |-> "a", n |-> 2]>>
ShellyName == ProjectClaudeName \o <<[c |-> ";", n |-> 1], [c |-> "a", n |-> 2]>>
\* output that holds "[exited]"
ExitedBanner == <<[c |-> "[exited]", n |-> 1]>>

\* client frames: what startswith, lstrip and json.loads make of each
Frames ==
    { [type |-> "bytes", payload |-> "raw", brace |-> FALSE, prefix |-> FALSE, json |-> "invalid"],
      [type |-> "text", payload |-> "ls", brace |-> FALSE, prefix |-> FALSE, json |-> "invalid"],
      [type |-> "text", payload |-> "{\"resize\":{..}}", brace |-> TRUE, prefix |-> TRUE, json |-> "resize"],
      [type |-> "text", payload |-> "{ \"resize\": {..}}", brace |-> TRUE, prefix |-> FALSE, json |-> "resize"],
      [type |-> "text", payload |-> "{\"refresh\":true}", brace |-> TRUE, prefix |-> FALSE, json |-> "refresh"],
      [type |-> "text", payload |-> "{\"x\":1}", brace |-> TRUE, prefix |-> FALSE, json |-> "other"],
      [type |-> "text", payload |-> "{\"resize\":", brace |-> TRUE, prefix |-> TRUE, json |-> "invalid"],
      [type |-> "text", payload |-> "{oops", brace |-> TRUE, prefix |-> FALSE, json |-> "invalid"] }

\* the input loop's treatment of one frame: what it writes and what it resizes
dispatch_frame(f) ==
    IF f.type = "text" /\ f.prefix
    THEN IF f.json = "invalid"
         THEN [write |-> <<>>, resize_pty |-> FALSE, resize_mux |-> FALSE]
         ELSE [write |-> <<>>, resize_pty |-> TRUE, resize_mux |-> FALSE]
    ELSE [write |-> <<f.payload>>, resize_pty |-> FALSE, resize_mux |-> FALSE]

\* variant: the finally block also kills the tmux session
teardown_KillsMux(b, M, S) ==
    [bridge |-> [b EXCEPT !.pc = "closed", !.master_fd = "closed", !.registered = FALSE,
                          !.output_task = IF @ = "running" THEN "cancelled" ELSE @],
     mux |-> kill_tmux_session(M, 1, TRUE).mux,
     store |-> S]

\* the finally blocks of terminal_websocket: cancel the reader, close the
\* master fd, drop the registry entry
teardown(b, M, S) ==
    [bridge |-> [b EXCEPT !.pc = "closed",
                          !.master_fd = IF @ = "open" THEN "closed" ELSE @,
                          !.registered = FALSE,
                          !.output_task = IF @ = "running" THEN "cancelled" ELSE @],
     mux |-> M,
     store |-> S]

Bridge0 ==
    [pc |-> "idle", connects |-> 0, frames |-> 0, spawned |-> FALSE, master_fd |-> "none",
     child |-> "none", output_task |-> "none", registered |-> FALSE, written |-> <<>>,
     pty_size |-> "default", mux_size |-> "default", commands |-> {}, close_code |-> 0,
     close_reason |-> ""]

\* variant: the row is touched before the session is found dead
session_dead_Touches(b, M, S) ==
    [bridge |-> teardown([b EXCEPT !.close_code = 4000, !.close_reason = "session_dead"],
                         M, S).bridge,
     mux |-> M,
     store |-> IF 1 \in DOMAIN S THEN [S EXCEPT ![1].age = 0] ELSE S]

\* if not is_alive: websocket.close(code=4000, reason='{"error": "session_dead", ...}')
\* and return, through the finally blocks
session_dead(b, M, S) ==
    [bridge |-> teardown([b EXCEPT !.close_code = 4000, !.close_reason = "session_dead"],
                         M, S).bridge,
     mux |-> M,
     store |-> S]

\* ---------------------------------------------------------------- actions

R0 ==
    [op |-> "init", id |-> NoId, ok |-> TRUE, new |-> NoId, raised |-> FALSE,
     path |-> "", status |-> 0, detail |-> "", failed |-> {},
     stats |-> [marked_alive |-> 0, marked_dead |-> 0, purged |-> 0,
                orphans_killed |-> 0]]

Init ==
    /\ sessions = <<>>
    /\ panes = <<>>
    /\ mux = <<>>
    /\ nextId = 1
    /\ nextPane = 1
    /\ last = R0
    /\ requests = <<>>
    /\ claude_live = {}
    /\ verif = NoVerif
    /\ reader = Reader0
    /\ bridge = Bridge0
    /\ probe = Probe0
    /\ tasks = <<>>
    /\ registry = <<>>

CreateSession(name, project_id, working_dir, mode, muxOk) ==
    /\ UNCHANGED extVars
    /\ LET r == create_session(sessions, mux, nextId, name, project_id, working_dir,
                               NULL, mode, muxOk)
       IN  /\ sessions' = r.store
           /\ mux' = r.mux
           /\ nextId' = IF r.inserted THEN nextId + 1 ELSE nextId
           /\ last' = [R0 EXCEPT !.op = "create", !.id = IF r.inserted THEN nextId
                                                        ELSE get_dead_session_by_project(
                                                               sessions, project_id, mode),
                                 !.ok = ~r.raised, !.new = r.ret,
                                 !.raised = r.raised, !.path = r.path]
    /\ UNCHANGED <<panes, nextPane>>

DeleteSession(id, killOk) ==
    /\ UNCHANGED extVars
    /\ LET r == delete_session(sessions, mux, id, killOk)
       IN  /\ sessions' = r.store
           /\ mux' = r.mux
           /\ last' = [R0 EXCEPT !.op = "delete", !.id = id, !.ok = r.ret,
                                 !.failed = IF id \in DOMAIN mux /\ ~r.killed THEN {id} ELSE {}]
    /\ UNCHANGED <<panes, nextId, nextPane>>

EnsureAlive(id, muxOk) ==
    /\ UNCHANGED extVars
    /\ LET r == ensure_session_alive(sessions, mux, id, muxOk)
       IN  /\ sessions' = r.store
           /\ mux' = r.mux
           /\ last' = [R0 EXCEPT !.op = "ensure_alive", !.id = id, !.ok = r.ret,
                                 !.path = IF r.created THEN "create" ELSE ""]
    /\ UNCHANGED <<panes, nextId, nextPane>>

\* POST /api/terminal/sessions/{id}/reset
ResetSession(id, killOk, muxOk) ==
    /\ UNCHANGED extVars
    /\ LET r == reset_session(sessions, mux, nextId, id, killOk, muxOk)
       IN  /\ sessions' = r.store
           /\ mux' = r.mux
           /\ nextId' = IF r.found THEN nextId + 1 ELSE nextId
           /\ last' = [R0 EXCEPT !.op = "reset", !.id = id, !.ok = ~r.raised,
                                 !.new = r.ret, !.raised = r.raised,
                                 !.status = IF ~r.found THEN 404
                                            ELSE IF r.raised THEN 500 ELSE 200]
    /\ UNCHANGED <<panes, nextPane>>

\* POST /api/terminal/sessions/{id}/reset through lifecycle_batch.reset_session
BatchResetSession(id, killOk) ==
    /\ UNCHANGED extVars
    /\ LET r == lifecycle_batch_reset_session(sessions, mux, id, killOk)
       IN  /\ sessions' = r.store
           /\ mux' = r.mux
           /\ last' = [R0 EXCEPT !.op = "batch_reset", !.id = id, !.ok = ~r.raised,
                                 !.new = r.ret, !.raised = r.raised,
                                 !.status = IF ~r.found THEN 404
                                            ELSE IF r.raised THEN 500 ELSE 200]
    /\ UNCHANGED <<panes, nextId, nextPane>>

\* POST /api/terminal/projects/{project_id}/reset
ResetProject(project_id, working_dir, failK, muxOk) ==
    /\ UNCHANGED extVars
    /\ LET r == reset_project_sessions(sessions, mux, nextId, project_id, working_dir,
                                       failK, muxOk)
       IN  /\ sessions' = r.store
           /\ mux' = r.mux
           /\ nextId' = r.nextId
           /\ last' = [R0 EXCEPT !.op = "reset_project", !.ok = ~r.raised,
                                 !.raised = r.raised,
                                 !.failed = {i \in r.before : i \in DOMAIN mux /\ i \in failK},
                                 !.stats = [before |-> r.before, ids |-> r.ret]]
    /\ UNCHANGED <<panes, nextPane>>

\* the tmux session ends outside the service (shell exit, kill-session, reboot)
MuxSessionExits(id) ==
    /\ UNCHANGED extVars
    /\ id \in DOMAIN mux
    /\ mux' = [i \in (DOMAIN mux) \ {id} |-> mux[i]]
    /\ last' = [R0 EXCEPT !.op = "mux_exit", !.id = id]
    /\ UNCHANGED <<sessions, panes, nextId, nextPane>>

\* time passes: every row's last_accessed_at gets TickDays older
Tick ==
    /\ UNCHANGED extVars
    /\ \E i \in DOMAIN sessions : sessions[i].age < MaxAge
    /\ sessions' = [i \in DOMAIN sessions |->
                      [sessions[i] EXCEPT !.age = MinOf(@ + TickDays, MaxAge)]]
    /\ last' = [R0 EXCEPT !.op = "tick"]
    /\ UNCHANGED <<panes, mux, nextId, nextPane>>

\* service start: lifespan() runs reconcile_on_startup with the default purge
ReconcileOnStartup(failK, started) ==
    /\ UNCHANGED extVars
    /\ failK \subseteq ((DOMAIN tmux_after(mux, started)) \ DOMAIN purge_dead_sessions(
                                reconcile_rows(sessions, mux, DOMAIN sessions),
                                purge_after_days))
    /\ LET r == reconcile_on_startup(sessions, mux, purge_after_days, failK, started)
       IN  /\ sessions' = r.store
           /\ mux' = r.mux
           /\ last' = [R0 EXCEPT !.op = "reconcile", !.failed = failK, !.stats = r.stats,
                                 !.new = Cardinality(started),
                                 !.path = IF last.op = "reconcile" THEN "repeat"
                                          ELSE "first"]
    /\ UNCHANGED <<panes, nextId, nextPane>>

\* POST /api/terminal/panes
CreatePane(pane_type, pane_name, project_id, working_dir, failAt) ==
    /\ UNCHANGED extVars
    /\ IF pane_limit_reached(count_panes(panes))
       THEN /\ last' = [R0 EXCEPT !.op = "create_pane", !.ok = FALSE, !.status = 400,
                         !.detail = "Maximum " \o ToString(MAX_PANES)
                                    \o " panes allowed. Close one to add more."]
            /\ UNCHANGED <<sessions, panes, mux, nextId, nextPane>>
       ELSE IF pane_type = "project" /\ project_id = NULL
       THEN /\ last' = [R0 EXCEPT !.op = "create_pane", !.ok = FALSE, !.status = 400,
                         !.detail = "project_id required for project panes"]
            /\ UNCHANGED <<sessions, panes, mux, nextId, nextPane>>
       ELSE IF pane_type = "adhoc" /\ project_id # NULL
       THEN /\ last' = [R0 EXCEPT !.op = "create_pane", !.ok = FALSE, !.status = 400,
                         !.detail = "project_id must be empty for adhoc panes"]
            /\ UNCHANGED <<sessions, panes, mux, nextId, nextPane>>
       ELSE LET r == create_pane_with_sessions(panes, sessions, nextPane, nextId, nextId + 1,
                                               pane_type, pane_name, project_id, working_dir,
                                               failAt)
            IN  /\ panes' = r.panes
                /\ sessions' = r.store
                /\ nextPane' = IF r.raised THEN nextPane ELSE nextPane + 1
                /\ nextId' = IF r.raised THEN nextId
                             ELSE nextId + (IF pane_type = "project" THEN 2 ELSE 1)
                /\ last' = IF r.raised
                           THEN [R0 EXCEPT !.op = "create_pane", !.ok = FALSE,
                                           !.raised = TRUE, !.status = 500]
                           ELSE [R0 EXCEPT !.op = "create_pane", !.id = nextPane,
                                           !.status = 200]
                /\ UNCHANGED mux

\* DELETE /api/terminal/panes/{pane_id}
DeletePane(pane_id) ==
    /\ UNCHANGED extVars
    /\ LET r == delete_pane(panes, sessions, pane_id)
       IN  /\ panes' = r.panes
           /\ sessions' = r.store
           /\ last' = [R0 EXCEPT !.op = "delete_pane", !.id = pane_id, !.ok = r.deleted,
                                 !.status = IF r.deleted THEN 200 ELSE 404]
    /\ UNCHANGED <<mux, nextId, nextPane>>

\* POST /api/terminal/panes/swap
SwapPanes(pane_id_a, pane_id_b) ==
    /\ UNCHANGED extVars
    /\ LET r == swap_pane_positions(panes, pane_id_a, pane_id_b)
       IN  /\ panes' = r.panes
           /\ last' = IF r.ret
                      THEN [R0 EXCEPT !.op = "swap_panes", !.id = pane_id_a,
                                      !.new = pane_id_b, !.status = 200]
                      ELSE [R0 EXCEPT !.op = "swap_panes", !.id = pane_id_a,
                                      !.new = pane_id_b, !.ok = FALSE, !.status = 404,
                                      !.detail = "One or both panes not found"]
    /\ UNCHANGED <<sessions, mux, nextId, nextPane>>

\* PATCH /api/terminal/panes/{pane_id}; pane_name / active_mode NULL when the
\* request leaves the field out
UpdatePane(pane_id, pane_name, active_mode) ==
    /\ UNCHANGED extVars
    /\ IF pane_id \notin DOMAIN panes
       THEN /\ last' = [R0 EXCEPT !.op = "update_pane", !.id = pane_id, !.ok = FALSE,
                                  !.status = 404]
            /\ UNCHANGED panes
       ELSE IF active_mode # NULL
               /\ active_mode_rejected(panes[pane_id].pane_type, active_mode)
       THEN /\ last' = [R0 EXCEPT !.op = "update_pane", !.id = pane_id, !.ok = FALSE,
                                  !.status = 400,
                                  !.detail = "Ad-hoc panes do not support claude mode"]
            /\ UNCHANGED panes
       ELSE LET update_fields == request_update_fields(pane_name, active_mode)
                r == update_pane(panes, pane_id, update_fields)
            IN  /\ panes' = IF DOMAIN update_fields = {} THEN panes ELSE r.panes
                /\ last' = [R0 EXCEPT !.op = "update_pane", !.id = pane_id, !.status = 200,
                                      !.stats = [pane_name |-> pane_name,
                                                 active_mode |-> active_mode]]
    /\ UNCHANGED <<sessions, mux, nextId, nextPane>>


\* ---------------------------------------------------------- specifications

\* LifecycleCore: create / delete / ensure_alive against a fallible tmux
Next ==
    \/ \E req \in CreateRequests, project_id \in Projects \cup {NULL},
          mode \in Modes, muxOk \in BOOLEAN :
            /\ nextId <= MaxSessionId
            /\ CreateSession(req[1], project_id, req[2], mode, muxOk)
    \/ \E id \in SessionIds, killOk \in BOOLEAN : DeleteSession(id, killOk)
    \/ \E id \in SessionIds, muxOk \in BOOLEAN : EnsureAlive(id, muxOk)
    \/ \E id \in SessionIds : MuxSessionExits(id)

Spec == Init /\ [][Next]_vars

\* Reconciler: rows of one shape age, die and are reconciled at service start
NextReconcile ==
    \/ \E muxOk \in BOOLEAN :
            /\ nextId <= MaxReconcileId
            /\ CreateSession("n1", NULL, "/w1", "shell", muxOk)
    \/ \E id \in DOMAIN sessions, killOk \in BOOLEAN : DeleteSession(id, killOk)
    \/ \E id \in DOMAIN mux : MuxSessionExits(id)
    \/ Tick
    \/ \E failK \in SUBSET (DOMAIN mux) : ReconcileOnStartup(failK, {})

SpecReconcile == Init /\ [][NextReconcile]_vars

\* Reconciler with tmux moving during the run: a tmux session of a row without
\* one may come up between the two listings of reconcile_on_startup
NextReconcileRace ==
    \/ \E muxOk \in BOOLEAN :
            /\ nextId <= MaxRaceId
            /\ CreateSession("n1", NULL, "/w1", "shell", muxOk)
    \/ \E id \in DOMAIN mux : MuxSessionExits(id)
    \/ Tick
    \/ \E started \in {{}} \cup {{i} : i \in (DOMAIN sessions) \ DOMAIN mux} :
            \E failK \in SUBSET (DOMAIN mux \cup started) :
                ReconcileOnStartup(failK, started)

SpecReconcileRace == Init /\ [][NextReconcileRace]_vars

\* PaneManager: pane creation under the cap and pane deletion
NextPanes ==
    \/ \E pane_type \in PaneTypes, project_id \in Projects \cup {NULL},
          failAt \in InsertFailures :
            /\ nextPane <= MaxPaneId
            /\ CreatePane(pane_type, "n1", project_id, "/w1", failAt)
    \/ \E pane_id \in PaneIds : DeletePane(pane_id)

SpecPanes == Init /\ [][NextPanes]_vars

\* PaneManager: panes are created, reordered and deleted
NextPaneSwap ==
    \/ \E pane_type \in PaneTypes :
            /\ nextPane <= MaxEditPaneId
            /\ CreatePane(pane_type, "n1", IF pane_type = "project" THEN "p1" ELSE NULL,
                          "/w1", "none")
    \/ \E pane_id \in 1..MaxEditPaneId : DeletePane(pane_id)
    \/ \E pane_id_a, pane_id_b \in 1..MaxEditPaneId : SwapPanes(pane_id_a, pane_id_b)

SpecPaneSwap == Init /\ [][NextPaneSwap]_vars

\* PaneManager: panes are created, edited and deleted
NextPaneEdit ==
    \/ \E pane_type \in PaneTypes :
            /\ nextPane <= MaxPaneSessionId
            /\ CreatePane(pane_type, "n1", IF pane_type = "project" THEN "p1" ELSE NULL,
                          "/w1", "none")
    \/ \E pane_id \in 1..MaxPaneSessionId : DeletePane(pane_id)
    \/ \E pane_id \in 1..MaxPaneSessionId, pane_name \in {NULL, "n2"},
          active_mode \in Modes \cup {NULL} :
            UpdatePane(pane_id, pane_name, active_mode)

SpecPaneEdit == Init /\ [][NextPaneEdit]_vars


\* Store: session rows inserted by create_session and by pane creation, with
\* rows dying, coming back and being deleted in between
NextNumbers ==
    \/ \E project_id \in Projects \cup {NULL}, mode \in Modes :
            /\ nextId <= MaxNumberId
            /\ CreateSession("n1", project_id, "/w1", mode, TRUE)
    \/ \E pane_type \in PaneTypes :
            /\ nextPane <= MaxOwnedPaneId
            /\ nextId < MaxNumberId
            /\ CreatePane(pane_type, "n1", IF pane_type = "project" THEN "p1" ELSE NULL,
                          "/w1", "none")
    \/ \E id \in DOMAIN sessions : DeleteSession(id, TRUE)
    \/ \E id \in DOMAIN sessions : ~tmux_session_exists(mux, id) /\ EnsureAlive(id, FALSE)
    \/ \E id \in DOMAIN mux : MuxSessionExits(id)

SpecNumbers == Init /\ [][NextNumbers]_vars

\* the sessions of a pane under every operation that reaches them: websocket
\* connect (ensure_alive), session delete, session reset, pane delete
NextPaneSessions ==
    \/ \E pane_type \in PaneTypes, project_id \in Projects \cup {NULL} :
            /\ nextPane <= MaxOwnedPaneId
            /\ CreatePane(pane_type, "n1", project_id, "/w1", "none")
    \/ \E pane_id \in DOMAIN panes : DeletePane(pane_id)
    \/ \E id \in DOMAIN sessions, killOk \in BOOLEAN : DeleteSession(id, killOk)
    \/ \E id \in DOMAIN sessions, killOk \in BOOLEAN, muxOk \in BOOLEAN :
            /\ nextId <= MaxPaneSessionId
            /\ ResetSession(id, killOk, muxOk)
    \/ \E id \in DOMAIN sessions, muxOk \in BOOLEAN : EnsureAlive(id, muxOk)
    \/ \E id \in DOMAIN mux : MuxSessionExits(id)

SpecPaneSessions == Init /\ [][NextPaneSessions]_vars

\* LifecycleBatch: the shell sessions of one project are created, die and are
\* reset; claude sessions come from the resets
NextReset ==
    \/ \E muxOk \in BOOLEAN :
            /\ nextId <= MaxResetId - 2
            /\ CreateSession("n1", "p1", "/w1", "shell", muxOk)
    \/ \E id \in DOMAIN sessions, muxOk \in BOOLEAN : EnsureAlive(id, muxOk)
    \/ \E id \in DOMAIN mux : MuxSessionExits(id)
    \/ \E working_dir \in {NULL, "/w1"},
          failK \in SUBSET (get_all_project_sessions(sessions, "p1") \cap DOMAIN mux),
          muxOk \in [Modes -> BOOLEAN] :
            /\ nextId + 1 <= MaxResetId
            /\ ResetProject("p1", working_dir, failK, muxOk)

SpecReset == Init /\ [][NextReset]_vars

\* session reset through either implementation, on the sessions of a pane
NextResetSession ==
    \/ \E pane_type \in PaneTypes, project_id \in Projects \cup {NULL} :
            /\ nextPane <= MaxOwnedPaneId
            /\ CreatePane(pane_type, "n1", project_id, "/w1", "none")
    \/ \E id \in SessionIds \cup DOMAIN sessions, killOk \in BOOLEAN, muxOk \in BOOLEAN :
            /\ nextId <= MaxPaneSessionId
            /\ ResetSession(id, killOk, muxOk)
    \/ \E id \in SessionIds \cup DOMAIN sessions, killOk \in BOOLEAN :
            BatchResetSession(id, killOk)
    \/ \E id \in DOMAIN sessions, muxOk \in BOOLEAN : EnsureAlive(id, muxOk)

SpecResetSession == Init /\ [][NextResetSession]_vars

\* ------------------------------------------------------------ ClaudeState

\* variant: a refused conditional update still reports success
update_claude_state_ReportsApplied(S, id, state, expected_state) ==
    IF /\ id \in DOMAIN S
       /\ (expected_state = NULL \/ S[id].claude_state = expected_state)
    THEN [store |-> [S EXCEPT ![id].claude_state = state], ret |-> TRUE]
    ELSE [store |-> S, ret |-> id \in DOMAIN S]

\* variant: the conditional update ignores expected_state
update_claude_state_IgnoresExpected(S, id, state, expected_state) ==
    IF id \in DOMAIN S
    THEN [store |-> [S EXCEPT ![id].claude_state = state], ret |-> TRUE]
    ELSE [store |-> S, ret |-> FALSE]

\* UPDATE terminal_sessions SET claude_state = state WHERE id = id
\*   [AND claude_state = expected_state] RETURNING id
update_claude_state(S, id, state, expected_state) ==
    IF /\ id \in DOMAIN S
       /\ (expected_state = NULL \/ S[id].claude_state = expected_state)
    THEN [store |-> [S EXCEPT ![id].claude_state = state], ret |-> TRUE]
    ELSE [store |-> S, ret |-> FALSE]

\* SELECT claude_state ...: None without a row
get_claude_state(S, id) == IF id \in DOMAIN S THEN S[id].claude_state ELSE NULL

update_claude_session(S, id, claude_session) ==
    IF id \in DOMAIN S THEN [S EXCEPT ![id].last_claude_session = claude_session] ELSE S

\* f"claude-{session_id}", the id written as a run of that many characters
claude_session_name(id) == <<[c |-> "a", n |-> 6], [c |-> "-", n |-> 1], [c |-> "a", n |-> id]>>

\* claude is the foreground command of the tmux session claude-<id>
is_claude_running_in_session(live, id) == id \in live

verify_claude_started(live, id) == is_claude_running_in_session(live, id)

\* variant: a start that did not come up is left in 'starting'
background_verify_claude_start_NoError(S, live, id) ==
    IF verify_claude_started(live, id)
    THEN update_claude_state(S, id, "running", "starting").store
    ELSE S

\* the task scheduled by start_claude, after its sleep
background_verify_claude_start(S, live, id) ==
    IF verify_claude_started(live, id)
    THEN update_claude_state(S, id, "running", "starting").store
    ELSE update_claude_state(S, id, "error", "starting").store

NoResp == [status |-> 0, started |-> FALSE, claude_state |-> NULL]

Resp(status, started, state) == [status |-> status, started |-> started, claude_state |-> state]

Finish(r, resp) == [requests EXCEPT ![r].pc = "done", ![r].resp = resp]

\* start_claude up to its state check: get_session, 404, the two early returns
StartRead(r, id) ==
    /\ r \notin DOMAIN requests
    /\ r = Len(requests) + 1
    /\ LET current_state == get_claude_state(sessions, id)
           req == [id |-> id, pc |-> "read", current_state |-> current_state,
                   cas |-> "none", resp |-> NoResp]
       IN  requests' = Append(requests,
                IF id \notin DOMAIN sessions
                THEN [req EXCEPT !.pc = "done", !.resp = Resp(404, FALSE, NULL)]
                ELSE IF current_state \in {"starting", "running"}
                THEN [req EXCEPT !.pc = "done", !.resp = Resp(200, FALSE, current_state)]
                ELSE req)
    /\ UNCHANGED <<tasks, registry, reader, bridge, probe, sessions, panes, mux, nextId, nextPane, last, claude_live, verif>>

\* the tmux checks and the conditional update to 'starting'
StartCas(r) ==
    /\ r \in DOMAIN requests
    /\ requests[r].pc = "read"
    /\ LET id == requests[r].id
           u == update_claude_state(sessions, id, "starting", requests[r].current_state)
       IN  IF ~tmux_session_exists(mux, id)
           THEN /\ requests' = Finish(r, Resp(400, FALSE, NULL))
                /\ UNCHANGED sessions
           ELSE IF is_claude_running_in_session(claude_live, id)
           THEN /\ sessions' = update_claude_state(sessions, id, "running", NULL).store
                /\ requests' = Finish(r, Resp(200, FALSE, "running"))
           ELSE /\ sessions' = u.store
                /\ requests' = [requests EXCEPT ![r].pc = IF u.ret THEN "won" ELSE "lost",
                                                 ![r].cas = IF u.ret THEN "applied"
                                                            ELSE "refused"]
    /\ UNCHANGED <<tasks, registry, reader, bridge, probe, panes, mux, nextId, nextPane, last, claude_live, verif>>

\* the conditional update did not apply: report the state now stored
StartLost(r) ==
    /\ r \in DOMAIN requests
    /\ requests[r].pc = "lost"
    /\ LET new_state == get_claude_state(sessions, requests[r].id)
       IN  requests' = Finish(r, Resp(200, FALSE,
                                      IF new_state = NULL THEN "not_started" ELSE new_state))
    /\ UNCHANGED <<tasks, registry, reader, bridge, probe, sessions, panes, mux, nextId, nextPane, last, claude_live, verif>>

\* kill-session claude-<id>, new-session ... claude, then error or schedule
StartLaunch(r, launchOk) ==
    /\ r \in DOMAIN requests
    /\ requests[r].pc = "won"
    /\ LET id == requests[r].id
       IN  IF launchOk
           THEN /\ sessions' = update_claude_session(sessions, id, claude_session_name(id))
                /\ claude_live' = claude_live \cup {id}
                /\ verif' = [scheduled |-> [verif.scheduled EXCEPT ![id] = @ + 1],
                             pending |-> [verif.pending EXCEPT ![id] = @ + 1]]
                /\ requests' = Finish(r, Resp(200, TRUE, "starting"))
           ELSE /\ sessions' = update_claude_state(sessions, id, "error", NULL).store
                /\ claude_live' = claude_live \ {id}
                /\ verif' = verif
                /\ requests' = Finish(r, Resp(200, FALSE, "error"))
    /\ UNCHANGED <<tasks, registry, reader, bridge, probe, panes, mux, nextId, nextPane, last>>

\* _background_verify_claude_start runs for a session
BackgroundVerify(id) ==
    /\ verif.pending[id] > 0
    /\ sessions' = background_verify_claude_start(sessions, claude_live, id)
    /\ verif' = [verif EXCEPT !.pending[id] = @ - 1]
    /\ UNCHANGED <<tasks, registry, reader, bridge, probe, panes, mux, nextId, nextPane, last, requests, claude_live>>

\* claude exits (or never came up): its tmux session ends with it
ClaudeExits(id) ==
    /\ id \in claude_live
    /\ claude_live' = claude_live \ {id}
    /\ UNCHANGED <<tasks, registry, reader, bridge, probe, sessions, panes, mux, nextId, nextPane, last, requests, verif>>

\* one session row with its tmux session, claude never started
InitClaude ==
    /\ sessions = store_create_session(<<>>, 1, "n1", NULL, "/w1", NULL, "shell", NoPane)
    /\ panes = <<>>
    /\ mux = create_tmux_session(<<>>, 1, "/w1", TRUE).mux
    /\ nextId = 2
    /\ nextPane = 1
    /\ last = R0
    /\ requests = <<>>
    /\ claude_live = {}
    /\ verif = NoVerif
    /\ reader = Reader0
    /\ bridge = Bridge0
    /\ probe = Probe0
    /\ tasks = <<>>
    /\ registry = <<>>

\* ClaudeState: start requests interleaved at their store and tmux calls
NextClaude ==
    \/ \E r \in 1..MaxStartRequests, id \in ClaudeIds : StartRead(r, id)
    \/ \E r \in DOMAIN requests : StartCas(r)
    \/ \E r \in DOMAIN requests : StartLost(r)
    \/ \E r \in DOMAIN requests, launchOk \in BOOLEAN : StartLaunch(r, launchOk)
    \/ \E id \in ClaudeIds : BackgroundVerify(id)
    \/ \E id \in ClaudeIds : ClaudeExits(id)
    \/ \E id \in DOMAIN mux : MuxSessionExits(id)

SpecClaude == InitClaude /\ [][NextClaude]_vars

\* every request and every scheduled verification runs on
FairClaude ==
    /\ \A r \in 1..MaxStartRequests :
          /\ WF_vars(StartCas(r))
          /\ WF_vars(StartLost(r))
          /\ WF_vars(\E launchOk \in BOOLEAN : StartLaunch(r, launchOk))
    /\ \A id \in ClaudeIds : WF_vars(BackgroundVerify(id))

SpecClaudeLive == SpecClaude /\ FairClaude

\* ------------------------------------------------------ PtyReader steps

\* on_readable: os.read returned the chunk (the empty chunk is EOF / EIO)
OnReadable(chunk) ==
    /\ reader.pc = "running"
    /\ Len(reader.queue) < MaxQueue
    /\ reader' = [reader EXCEPT !.stream = @ \o chunk, !.queue = Append(@, chunk)]
    /\ UNCHANGED <<sessions, panes, mux, nextId, nextPane, last, requests, claude_live, verif, bridge, probe, tasks, registry>>

\* time passes while the loop waits in wait_for(queue.get(), timeout=wait_time)
Elapse(dt) ==
    /\ reader.pc = "running"
    /\ reader.queue = <<>>
    /\ dt >= 1
    /\ dt <= reader.wait_left
    /\ reader' = [reader EXCEPT !.wait_left = @ - dt,
                                !.since_flush = MinOf(@ + dt, MaxClock),
                                !.age = IF reader.batch_buffer = <<>> THEN 0
                                        ELSE MinOf(@ + dt, MaxClock)]
    /\ UNCHANGED <<sessions, panes, mux, nextId, nextPane, last, requests, claude_live, verif, bridge, probe, tasks, registry>>

\* queue.get() returns before the timeout: EOF, or a chunk to decode and batch
ReaderGet ==
    /\ reader.pc = "running"
    /\ reader.queue # <<>>
    /\ reader.wait_left > 0
    /\ LET output == Head(reader.queue)
           rd == [reader EXCEPT !.queue = Tail(@)]
           d == decode_chunk(rd.utf8_buffer, output)
           batched == [rd EXCEPT !.utf8_buffer = d.utf8_buffer,
                                 !.batch_buffer = @ \o d.decoded]
       IN  reader' =
             IF output = <<>> THEN [flush_batch(rd) EXCEPT !.pc = "done"]
             ELSE IF d.decoded # <<>> /\ TextLen(batched.batch_buffer) >= BATCH_SIZE_LIMIT
             THEN loop_or_break(flush_batch(batched))
             ELSE loop_or_break([batched EXCEPT !.continue = TRUE])
    /\ UNCHANGED <<sessions, panes, mux, nextId, nextPane, last, requests, claude_live, verif, bridge, probe, tasks, registry>>

\* wait_for raises TimeoutError: flush what is batched
ReaderTimeout ==
    /\ reader.pc = "running"
    /\ reader.queue = <<>>
    /\ reader.wait_left = 0
    /\ reader' = loop_or_break(flush_batch(reader))
    /\ UNCHANGED <<sessions, panes, mux, nextId, nextPane, last, requests, claude_live, verif, bridge, probe, tasks, registry>>

\* the task is cancelled while it waits: send what is batched, remove the reader
ReaderCancelled ==
    /\ reader.pc = "running"
    /\ reader' = [reader EXCEPT !.pc = "cancelled",
                                !.sent = @ \o reader.batch_buffer]
    /\ UNCHANGED <<sessions, panes, mux, nextId, nextPane, last, requests, claude_live, verif, bridge, probe, tasks, registry>>

\* PtyReader: what is sent against what was read, for every chunking of every
\* octet stream; time moves from one timer expiry to the next
NextReader ==
    \/ \E chunk \in SeqsUpTo({"A", "L", "c", "X"}, MaxChunkLen) :
            /\ Len(reader.stream) + Len(chunk) <= MaxStreamLen
            /\ Len(reader.stream) + Len(chunk) > 0
            /\ OnReadable(chunk)
    \/ Elapse(reader.wait_left)
    \/ ReaderGet
    \/ ReaderTimeout
    \/ ReaderCancelled

SpecReader == Init /\ [][NextReader]_vars

\* PtyReader, decoding only: every chunking of every octet stream through the
\* decode step, up to EOF
NextDecode ==
    \/ \E chunk \in SeqsUpTo({"A", "L", "c", "X"}, MaxChunkLen) :
            /\ Len(reader.stream) + Len(chunk) <= MaxStreamLen
            /\ Len(reader.stream) + Len(chunk) > 0
            /\ OnReadable(chunk)
    \/ ReaderGet

SpecDecode == Init /\ [][NextDecode]_vars

\* PtyReader and the exit marker: "[exited]" arrives whole or in two reads,
\* among other output; the loop itself always gets to run (weak fairness of its
\* steps and of its timer), the PTY and the client are free to stay silent.
\* A read that comes when the timer has expired is queued after the timeout
\* was handled.
NextReaderExit ==
    \/ \E chunk \in {<<"A">>, <<"Z">>, <<"Zh">>, <<"Zt">>, <<"Zh", "Zt">>, <<>>} :
            /\ Len(reader.stream) + Len(chunk) <= MaxStreamLen
            /\ reader.wait_left > 0
            /\ OnReadable(chunk)
    \/ Elapse(reader.wait_left)
    \/ ReaderGet
    \/ ReaderTimeout
    \/ ReaderCancelled

SpecReaderExit ==
    /\ Init
    /\ [][NextReaderExit]_vars
    /\ WF_vars(Elapse(reader.wait_left))
    /\ WF_vars(ReaderGet)
    /\ WF_vars(ReaderTimeout)

\* PtyReader, timed: a first read of one octet, a bulk run or "[exited]", then
\* single octets, against the clock
NextReaderTimed ==
    \/ \E b \in (IF reader.stream = <<>> THEN {"A", "B", "Z"} ELSE {"A"}) :
            /\ Len(reader.stream) < MaxTimedReads
            /\ OnReadable(<<b>>)
    \/ OnReadable(<<>>)
    \/ Elapse(1)
    \/ ReaderGet
    \/ ReaderTimeout
    \/ ReaderCancelled

SpecReaderTimed == Init /\ [][NextReaderTimed]_vars

\* ----------------------------------------------------------- Bridge steps

\* terminal_websocket from accept to the start of the reader task
BridgeConnect(muxOk, targetExists, spawnOk, raises) ==
    /\ bridge.pc \in {"idle", "closed"}
    /\ LET r == IF raises
                THEN [store |-> sessions, mux |-> mux, ret |-> FALSE, created |-> FALSE]
                ELSE ensure_session_alive(sessions, mux, 1, muxOk)
           touched == IF 1 \in DOMAIN r.store THEN [r.store EXCEPT ![1].age = 0] ELSE r.store
           stored == IF 1 \in DOMAIN r.store THEN r.store[1].last_claude_session ELSE NoName
           M == create_tmux_session(r.mux, 1, "/w1", muxOk).mux
           b == [Bridge0 EXCEPT !.connects = bridge.connects + 1]
           probed == {BaseName} \cup (IF stored # NoName THEN {stored} ELSE {})
                        \cup (IF stored = NoName \/ ~targetExists
                              THEN {ProjectClaudeName} ELSE {})
       IN  IF ~r.ret
           THEN LET d == session_dead(b, r.mux, r.store)
                IN  /\ sessions' = d.store
                    /\ mux' = d.mux
                    /\ bridge' = d.bridge
           ELSE IF ~spawnOk
           THEN /\ sessions' = touched
                /\ mux' = M
                /\ bridge' = teardown([b EXCEPT !.close_code = 1011, !.commands = probed],
                                      M, touched).bridge
           ELSE /\ sessions' = touched
                /\ mux' = M
                /\ bridge' = [b EXCEPT !.pc = "open", !.spawned = TRUE, !.master_fd = "open",
                                       !.child = "running", !.output_task = "running",
                                       !.registered = TRUE, !.commands = probed]
    /\ UNCHANGED <<panes, nextId, nextPane, last, requests, claude_live, verif, reader, probe, tasks, registry>>

\* _read_output sees a tclaude banner naming a session, or "[exited]"
BridgeOutput(seen) ==
    /\ bridge.output_task = "running"
    /\ IF seen = ExitedBanner
       THEN /\ sessions' = update_claude_session(sessions, 1, NoName)
            /\ bridge' = [bridge EXCEPT !.output_task = "finished", !.child = "exited"]
       ELSE /\ sessions' = update_claude_session(sessions, 1, seen)
            /\ bridge' = bridge
    /\ UNCHANGED <<panes, mux, nextId, nextPane, last, requests, claude_live, verif, reader, probe, tasks, registry>>

\* one client frame through the input loop; os.write may raise
BridgeFrame(f, writeOk) ==
    /\ bridge.pc = "open"
    /\ LET d == dispatch_frame(f)
           b == [bridge EXCEPT !.frames = @ + 1]
           t == teardown([b EXCEPT !.close_code = 1011], mux, sessions)
       IN  IF d.write # <<>> /\ ~writeOk
           THEN /\ bridge' = t.bridge
                /\ mux' = t.mux
                /\ sessions' = t.store
           ELSE /\ bridge' = [b EXCEPT !.written = @ \o d.write,
                                       !.pty_size = IF d.resize_pty THEN "client" ELSE @,
                                       !.mux_size = IF d.resize_mux THEN "client" ELSE @]
                /\ UNCHANGED <<mux, sessions>>
    /\ UNCHANGED <<panes, nextId, nextPane, last, requests, claude_live, verif, reader, probe, tasks, registry>>

\* websocket.disconnect / WebSocketDisconnect
BridgeDisconnect ==
    /\ bridge.pc = "open"
    /\ LET t == teardown([bridge EXCEPT !.close_code = 1000], mux, sessions)
       IN  /\ bridge' = t.bridge
           /\ mux' = t.mux
           /\ sessions' = t.store
    /\ UNCHANGED <<panes, nextId, nextPane, last, requests, claude_live, verif, reader, probe, tasks, registry>>

\* the tmux client loses its terminal and exits; nothing waits for it
ChildHangup ==
    /\ bridge.master_fd = "closed"
    /\ bridge.child = "running"
    /\ bridge' = [bridge EXCEPT !.child = "exited"]
    /\ UNCHANGED <<sessions, panes, mux, nextId, nextPane, last, requests, claude_live, verif, reader, probe, tasks, registry>>

\* Bridge: connections of session 1, one after the other
NextBridge ==
    \/ \E muxOk \in BOOLEAN, targetExists \in BOOLEAN, spawnOk \in BOOLEAN,
          raises \in BOOLEAN :
            /\ bridge.connects < MaxConnects
            /\ BridgeConnect(muxOk, targetExists, spawnOk, raises)
    \/ \E seen \in {ProjectClaudeName, ShellyName, ExitedBanner} : BridgeOutput(seen)
    \/ \E f \in Frames, writeOk \in BOOLEAN :
            /\ bridge.frames < MaxFrames
            /\ BridgeFrame(f, writeOk)
    \/ BridgeDisconnect
    \/ ChildHangup
    \/ \E id \in DOMAIN mux : MuxSessionExits(id)

SpecBridge == InitClaude /\ [][NextBridge]_vars

\* bridge setup on a row that ages: connects, output that names a claude
\* session, disconnects, the tmux session and the child going away
NextBridgeSetup ==
    \/ \E muxOk \in BOOLEAN, targetExists \in BOOLEAN, spawnOk \in BOOLEAN,
          raises \in BOOLEAN :
            /\ bridge.connects < MaxConnects
            /\ BridgeConnect(muxOk, targetExists, spawnOk, raises)
    \/ \E seen \in {ProjectClaudeName, ExitedBanner} : BridgeOutput(seen)
    \/ BridgeDisconnect
    \/ ChildHangup
    \/ \E id \in DOMAIN mux : MuxSessionExits(id)
    \/ Tick

SpecBridgeSetup == InitClaude /\ [][NextBridgeSetup]_vars

\* ------------------------------------------------------------ SwitchHook

\* get_tmux_session_name: f"summitflow-{session_id}", the id written as a run
BaseNameOf(id) == <<[c |-> "a", n |-> 10], [c |-> "-", n |-> 1], [c |-> "a", n |-> id]>>

\* the name is summitflow-<id> for some id
IsBaseName(name) ==
    /\ Len(name) = 3
    /\ name[1] = [c |-> "a", n |-> 10]
    /\ name[2] = [c |-> "-", n |-> 1]
    /\ name[3].c = "a"

\* the id left when the prefix is stripped
TerminalIdOf(name) == name[3].n

\* the names tmux has-session answers for
TmuxNames(M, live) ==
    {BaseNameOf(i) : i \in DOMAIN M} \cup {claude_session_name(i) : i \in live}

\* variant: the receiver does not look at the peer address
session_switch_AnyPeer(S, loopback, from, to) ==
    IF (from # NoName /\ ~validate_session_name(from)) \/ ~validate_session_name(to)
    THEN [store |-> S, status |-> "rejected"]
    ELSE IF ~IsBaseName(from) THEN [store |-> S, status |-> "ignored"]
    ELSE IF IsBaseName(to)
    THEN [store |-> update_claude_session(S, TerminalIdOf(from), NoName), status |-> "cleared"]
    ELSE [store |-> update_claude_session(S, TerminalIdOf(from), to), status |-> "stored"]

\* GET /api/internal/session-switch?from=..&to=..
session_switch(S, loopback, from, to) ==
    IF ~loopback THEN [store |-> S, status |-> "rejected"]
    ELSE IF (from # NoName /\ ~validate_session_name(from)) \/ ~validate_session_name(to)
    THEN [store |-> S, status |-> "rejected"]
    ELSE IF ~IsBaseName(from) THEN [store |-> S, status |-> "ignored"]
    ELSE IF IsBaseName(to)
    THEN [store |-> update_claude_session(S, TerminalIdOf(from), NoName), status |-> "cleared"]
    ELSE [store |-> update_claude_session(S, TerminalIdOf(from), to), status |-> "stored"]

\* variant: the stored target is used without asking tmux whether it exists
spawn_pty_for_tmux_NoHasSession(tmux_session, stored_target_session, existing) ==
    IF ~validate_session_name(tmux_session)
    THEN [raised |-> TRUE, attach |-> NoName, switch |-> NoName, commands |-> {}]
    ELSE IF stored_target_session # NoName /\ validate_session_name(stored_target_session)
    THEN [raised |-> FALSE, attach |-> tmux_session, switch |-> stored_target_session,
          commands |-> {tmux_session, stored_target_session}]
    ELSE [raised |-> FALSE, attach |-> tmux_session, switch |-> NoName,
          commands |-> {tmux_session}]

\* spawn_pty_for_tmux: the command the PTY child runs, and the names that
\* reached a tmux or shell command line
spawn_pty_for_tmux(tmux_session, stored_target_session, existing) ==
    IF ~validate_session_name(tmux_session)
    THEN [raised |-> TRUE, attach |-> NoName, switch |-> NoName, commands |-> {}]
    ELSE IF stored_target_session # NoName /\ validate_session_name(stored_target_session)
    THEN IF stored_target_session \in existing
         THEN [raised |-> FALSE, attach |-> tmux_session, switch |-> stored_target_session,
               commands |-> {tmux_session, stored_target_session}]
         ELSE [raised |-> FALSE, attach |-> tmux_session, switch |-> NoName,
               commands |-> {tmux_session, stored_target_session}]
    ELSE [raised |-> FALSE, attach |-> tmux_session, switch |-> NoName,
          commands |-> {tmux_session}]

\* ------------------------------------------------------- SwitchHook steps

\* the names a hook request or a stored target may carry
HookNames == {NoName, BaseNameOf(1), BaseNameOf(2), claude_session_name(1), ShellyName}

\* tmux fires client-session-changed and curl reaches the receiver, or another
\* peer calls it
SessionSwitch(loopback, from, to) ==
    /\ LET r == session_switch(sessions, loopback, from, to)
       IN  /\ sessions' = r.store
           /\ last' = [R0 EXCEPT !.op = "session_switch", !.ok = loopback,
                                 !.detail = r.status, !.stats = [from |-> from, to |-> to]]
    /\ UNCHANGED <<panes, mux, nextId, nextPane, requests, claude_live, verif, reader, bridge, probe, tasks, registry>>

\* bridge setup for a session row: spawn_pty_for_tmux(base name, stored target)
SpawnPty(id) ==
    /\ id \in DOMAIN sessions
    /\ LET stored == sessions[id].last_claude_session
           r == spawn_pty_for_tmux(BaseNameOf(id), stored, TmuxNames(mux, claude_live))
       IN  last' = [R0 EXCEPT !.op = "spawn", !.id = id, !.raised = r.raised,
                              !.stats = [stored |-> stored, attach |-> r.attach,
                                         switch |-> r.switch, commands |-> r.commands]]
    /\ UNCHANGED <<sessions, panes, mux, nextId, nextPane, requests, claude_live, verif, reader, bridge, probe, tasks, registry>>

\* session 1 with its tmux session and a running claude session claude-1
InitSwitch ==
    /\ sessions = store_create_session(<<>>, 1, "n1", NULL, "/w1", NULL, "shell", NoPane)
    /\ panes = <<>>
    /\ mux = create_tmux_session(<<>>, 1, "/w1", TRUE).mux
    /\ nextId = 2
    /\ nextPane = 1
    /\ last = R0
    /\ requests = <<>>
    /\ claude_live = {1}
    /\ verif = NoVerif
    /\ reader = Reader0
    /\ bridge = Bridge0
    /\ probe = Probe0
    /\ tasks = <<>>
    /\ registry = <<>>

\* SwitchHook: session switches reported by tmux, and the spawns that use them
NextSwitch ==
    \/ \E loopback \in BOOLEAN, from \in HookNames, to \in HookNames :
            SessionSwitch(loopback, from, to)
    \/ \E id \in DOMAIN sessions : SpawnPty(id)
    \/ \E id \in ClaudeIds : ClaudeExits(id)
    \/ \E id \in DOMAIN mux : MuxSessionExits(id)
    \/ \E muxOk \in BOOLEAN :
            /\ nextId <= MaxSessionId
            /\ CreateSession("n1", NULL, "/w1", "shell", muxOk)

SpecSwitch == InitSwitch /\ [][NextSwitch]_vars

\* ----------------------------------------------------- SessionNames steps

ValidateName ==
    /\ ~probe.asked
    /\ probe' = [probe EXCEPT !.asked = TRUE, !.ret = validate_session_name(probe.name)]
    /\ UNCHANGED <<sessions, panes, mux, nextId, nextPane, last, requests, claude_live, verif, reader, bridge, tasks, registry>>

\* every name of at most MaxNameRuns runs
InitNames ==
    /\ sessions = <<>>
    /\ panes = <<>>
    /\ mux = <<>>
    /\ nextId = 1
    /\ nextPane = 1
    /\ last = R0
    /\ requests = <<>>
    /\ claude_live = {}
    /\ verif = NoVerif
    /\ reader = Reader0
    /\ bridge = Bridge0
    /\ probe \in {[Probe0 EXCEPT !.name = nm] : nm \in SeqsUpTo(NameRuns, MaxNameRuns)}
    /\ tasks = <<>>
    /\ registry = <<>>

NextNames == ValidateName

SpecNames == InitNames /\ [][NextNames]_vars

\* ---------------------------------------------------------- LifecyclePair
\* DELETE /api/terminal/sessions/<id> and a websocket connect to the same id in
\* flight together.  Both handlers are coroutines of the one event loop and
\* call delete_session / ensure_session_alive, which are synchronous; the steps
\* below are the statements of the two functions, and the loop switches
\* coroutines only where the running one awaits.

\* variant: every Store call and every tmux call suspends the caller
lifecycle_call_awaits_Everywhere(pc) == TRUE

\* the positions at which one of the two calls is not running: before it is
\* entered and after it returned
lifecycle_call_awaits(pc) == pc \in {"received", "returned"}

\* the event loop can run call t: the other call is suspended
pair_free_for(T, t) == \A q \in (DOMAIN T) \ {t} : lifecycle_call_awaits(T[q].pc)

Call0 ==
    [pc |-> "received", id |-> NoId, is_alive |-> FALSE, working_dir |-> NULL,
     kill_failed |-> FALSE, created |-> FALSE, ret |-> FALSE]

\* both requests arrive; the previous pair, if any, has returned
PairArrives(id) ==
    /\ \A t \in DOMAIN tasks : tasks[t].pc = "returned"
    /\ tasks' = [t \in {"delete", "ensure"} |-> [Call0 EXCEPT !.id = id]]
    /\ UNCHANGED <<sessions, panes, mux, nextId, nextPane, last, requests, claude_live, verif, reader, bridge, probe, registry>>

\* delete_session step 1: _kill_tmux_session(session_id, ignore_missing=True)
DeleteKills(killOk) ==
    /\ "delete" \in DOMAIN tasks
    /\ tasks["delete"].pc = "received"
    /\ pair_free_for(tasks, "delete")
    /\ LET id == tasks["delete"].id
           k == kill_tmux_session(mux, id, killOk)
       IN  /\ mux' = k.mux
           /\ tasks' = [tasks EXCEPT !["delete"].pc = "killed",
                                     !["delete"].kill_failed = (id \in DOMAIN mux /\ ~k.killed)]
    /\ UNCHANGED <<sessions, panes, nextId, nextPane, last, requests, claude_live, verif, reader, bridge, probe, registry>>

\* delete_session step 2: terminal_store.delete_session(session_id); return True
DeleteDeletes ==
    /\ "delete" \in DOMAIN tasks
    /\ tasks["delete"].pc = "killed"
    /\ pair_free_for(tasks, "delete")
    /\ sessions' = store_delete_session(sessions, tasks["delete"].id)
    /\ tasks' = [tasks EXCEPT !["delete"].pc = "returned", !["delete"].ret = TRUE]
    /\ UNCHANGED <<panes, mux, nextId, nextPane, last, requests, claude_live, verif, reader, bridge, probe, registry>>

\* ensure_session_alive: session = terminal_store.get_session(session_id)
EnsureGets ==
    /\ "ensure" \in DOMAIN tasks
    /\ tasks["ensure"].pc = "received"
    /\ pair_free_for(tasks, "ensure")
    /\ LET id == tasks["ensure"].id
       IN  tasks' = [tasks EXCEPT !["ensure"] =
                        IF id \notin DOMAIN sessions THEN [@ EXCEPT !.pc = "returned"]
                        ELSE [@ EXCEPT !.pc = "got", !.is_alive = sessions[id].is_alive,
                                       !.working_dir = sessions[id].working_dir]]
    /\ UNCHANGED <<sessions, panes, mux, nextId, nextPane, last, requests, claude_live, verif, reader, bridge, probe, registry>>

\* ensure_session_alive: tmux_session_exists, and is_alive=True for a row read dead
EnsureChecks ==
    /\ "ensure" \in DOMAIN tasks
    /\ tasks["ensure"].pc = "got"
    /\ pair_free_for(tasks, "ensure")
    /\ LET id == tasks["ensure"].id
       IN  IF tmux_session_exists(mux, id)
           THEN /\ sessions' = IF ~tasks["ensure"].is_alive
                               THEN update_session(sessions, id, [is_alive |-> TRUE])
                               ELSE sessions
                /\ tasks' = [tasks EXCEPT !["ensure"].pc = "returned", !["ensure"].ret = TRUE]
           ELSE /\ sessions' = sessions
                /\ tasks' = [tasks EXCEPT !["ensure"].pc = "missing"]
    /\ UNCHANGED <<panes, mux, nextId, nextPane, last, requests, claude_live, verif, reader, bridge, probe, registry>>

\* ensure_session_alive: create_tmux_session; TmuxError -> mark_dead, return False
EnsureCreates(muxOk) ==
    /\ "ensure" \in DOMAIN tasks
    /\ tasks["ensure"].pc = "missing"
    /\ pair_free_for(tasks, "ensure")
    /\ LET id == tasks["ensure"].id
           c == create_tmux_session(mux, id, tasks["ensure"].working_dir, muxOk)
       IN  /\ mux' = c.mux
           /\ sessions' = IF c.raised THEN mark_dead(sessions, id) ELSE sessions
           /\ tasks' = [tasks EXCEPT !["ensure"].pc = IF c.raised THEN "returned" ELSE "created",
                                     !["ensure"].created = ~c.raised]
    /\ UNCHANGED <<panes, nextId, nextPane, last, requests, claude_live, verif, reader, bridge, probe, registry>>

\* ensure_session_alive: update_session(session_id, is_alive=True); return True
EnsureMarks ==
    /\ "ensure" \in DOMAIN tasks
    /\ tasks["ensure"].pc = "created"
    /\ pair_free_for(tasks, "ensure")
    /\ sessions' = update_session(sessions, tasks["ensure"].id, [is_alive |-> TRUE])
    /\ tasks' = [tasks EXCEPT !["ensure"].pc = "returned", !["ensure"].ret = TRUE]
    /\ UNCHANGED <<panes, mux, nextId, nextPane, last, requests, claude_live, verif, reader, bridge, probe, registry>>

\* sessions are created and lose their tmux session between pairs of calls
NextPair ==
    \/ /\ nextId <= MaxPairId
       /\ \A t \in DOMAIN tasks : tasks[t].pc = "returned"
       /\ CreateSession("n1", NULL, "/w1", "shell", TRUE)
    \/ \E id \in DOMAIN mux : MuxSessionExits(id)
    \/ \E id \in 1..MaxPairId : PairArrives(id)
    \/ \E killOk \in BOOLEAN : DeleteKills(killOk)
    \/ DeleteDeletes
    \/ EnsureGets
    \/ EnsureChecks
    \/ \E muxOk \in BOOLEAN : EnsureCreates(muxOk)
    \/ EnsureMarks

SpecPair == Init /\ [][NextPair]_vars

\* --------------------------------------------------------- BridgeRegistry
\* Several websocket connections to /ws/terminal/<id> of session 1.  The
\* handler awaits in accept, in websocket.receive and in 'await output_task';
\* everything between two awaits is one step.  A connection's master_fd stands
\* for its registry entry (every bridge opens its own).

\* _sessions[session_id] = {"master_fd": ..., "pid": ..., "session_name": ...}
registry_put(R, session_id, master_fd) ==
    [x \in (DOMAIN R) \cup {session_id} |->
        IF x = session_id THEN [master_fd |-> master_fd,
                                session_name |-> BaseNameOf(session_id)]
        ELSE R[x]]

\* _sessions.pop(session_id, None)
registry_pop(R, session_id) == [x \in (DOMAIN R) \ {session_id} |-> R[x]]

\* await websocket.accept() returns
WsAccept(c) ==
    /\ c \notin DOMAIN tasks
    /\ tasks' = tasks @@ (c :> [pc |-> "accepted", close_code |-> 0])
    /\ UNCHANGED <<sessions, panes, mux, nextId, nextPane, last, requests, claude_live, verif, reader, bridge, probe, registry>>

\* ensure_session_alive ... _spawn_pty_for_tmux, the registry entry and the
\* reader task; a dead session is closed with 4000, a failed spawn with 1011,
\* and both run the outer finally block
WsSetup(c, muxOk, spawnOk) ==
    /\ c \in DOMAIN tasks
    /\ tasks[c].pc = "accepted"
    /\ LET r == ensure_session_alive(sessions, mux, 1, muxOk)
       IN  /\ sessions' = r.store
           /\ mux' = r.mux
           /\ IF ~r.ret
              THEN /\ tasks' = [tasks EXCEPT ![c].pc = "closed", ![c].close_code = 4000]
                   /\ registry' = registry_pop(registry, 1)
              ELSE IF ~spawnOk
              THEN /\ tasks' = [tasks EXCEPT ![c].pc = "closed", ![c].close_code = 1011]
                   /\ registry' = registry_pop(registry, 1)
              ELSE /\ tasks' = [tasks EXCEPT ![c].pc = "active"]
                   /\ registry' = registry_put(registry, 1, c)
    /\ UNCHANGED <<panes, nextId, nextPane, last, requests, claude_live, verif, reader, bridge, probe>>

\* websocket.disconnect or an exception in the input loop: the reader task is
\* cancelled and awaited
WsDisconnect(c) ==
    /\ c \in DOMAIN tasks
    /\ tasks[c].pc = "active"
    /\ tasks' = [tasks EXCEPT ![c].pc = "closing"]
    /\ UNCHANGED <<sessions, panes, mux, nextId, nextPane, last, requests, claude_live, verif, reader, bridge, probe, registry>>

\* the outer finally block: os.close(master_fd); _sessions.pop(session_id, None)
WsCleanup(c) ==
    /\ c \in DOMAIN tasks
    /\ tasks[c].pc = "closing"
    /\ tasks' = [tasks EXCEPT ![c].pc = "closed"]
    /\ registry' = registry_pop(registry, 1)
    /\ UNCHANGED <<sessions, panes, mux, nextId, nextPane, last, requests, claude_live, verif, reader, bridge, probe>>

NextSockets ==
    \/ \E c \in 1..MaxSockets : WsAccept(c)
    \/ \E c \in 1..MaxSockets, muxOk \in BOOLEAN, spawnOk \in BOOLEAN : WsSetup(c, muxOk, spawnOk)
    \/ \E c \in 1..MaxSockets : WsDisconnect(c)
    \/ \E c \in 1..MaxSockets : WsCleanup(c)
    \/ MuxSessionExits(1)

SpecSockets == InitClaude /\ [][NextSockets]_vars

\* ----------------------------------------------------------- PaneRequests
\* POST /api/terminal/panes as a coroutine of the one event loop: a request is
\* suspended while its body is read, then the handler body runs; the loop
\* switches to another coroutine only where the running one awaits.

\* variant: the handler awaits between the count and the insert
handler_awaits_AfterCount(pc) == pc \in {"received", "counted", "done"}

\* the positions at which a create_pane request is not running: before the
\* handler body is entered and after it returned; the body has no await
handler_awaits(pc) == pc \in {"received", "done"}

\* the event loop can run request r: every other request is suspended
loop_free_for(T, r) == \A q \in (DOMAIN T) \ {r} : handler_awaits(T[q].pc)

PaneTask0 == [pc |-> "received", peers |-> {}, count |-> 0, at_insert |-> 0, status |-> 0]

\* a request arrives and waits for the event loop; peers: the requests in flight
PaneRequestArrives(r) ==
    /\ r \notin DOMAIN tasks
    /\ tasks' = tasks @@ (r :> [PaneTask0 EXCEPT
                                  !.peers = {q \in DOMAIN tasks : tasks[q].pc # "done"}])
    /\ UNCHANGED <<sessions, panes, mux, nextId, nextPane, last, requests, claude_live, verif, reader, bridge, probe, registry>>

\* current_count = pane_crud.count_panes(); 400 at the limit
PaneRequestCounts(r) ==
    /\ r \in DOMAIN tasks
    /\ tasks[r].pc = "received"
    /\ loop_free_for(tasks, r)
    /\ LET current_count == count_panes(panes)
       IN  tasks' = [tasks EXCEPT ![r] =
                        IF pane_limit_reached(current_count)
                        THEN [@ EXCEPT !.pc = "done", !.count = current_count, !.status = 400]
                        ELSE [@ EXCEPT !.pc = "counted", !.count = current_count]]
    /\ UNCHANGED <<sessions, panes, mux, nextId, nextPane, last, requests, claude_live, verif, reader, bridge, probe, registry>>

\* pane_crud.create_pane_with_sessions(...) and the response
PaneRequestInserts(r, pane_type) ==
    /\ r \in DOMAIN tasks
    /\ tasks[r].pc = "counted"
    /\ loop_free_for(tasks, r)
    /\ LET c == create_pane_with_sessions(panes, sessions, nextPane, nextId, nextId + 1,
                    pane_type, "n1", IF pane_type = "project" THEN "p1" ELSE NULL,
                    "/w1", "none")
       IN  /\ panes' = c.panes
           /\ sessions' = c.store
           /\ nextPane' = nextPane + 1
           /\ nextId' = nextId + (IF pane_type = "project" THEN 2 ELSE 1)
           /\ tasks' = [tasks EXCEPT ![r].pc = "done", ![r].status = 200,
                                     ![r].at_insert = count_panes(panes)]
    /\ UNCHANGED <<mux, last, requests, claude_live, verif, reader, bridge, probe, registry>>

\* requests are numbered in the order of their arrival
NextPaneRequests ==
    \/ \E r \in 1..MaxPaneRequests : (r - 1 = Cardinality(DOMAIN tasks)) /\ PaneRequestArrives(r)
    \/ \E r \in 1..MaxPaneRequests : PaneRequestCounts(r)
    \/ \E r \in 1..MaxPaneRequests : PaneRequestInserts(r, "adhoc")

SpecPaneRequests == Init /\ [][NextPaneRequests]_vars

\* ------------------------------------------------------------ LayoutRetry
\* One task per PUT /api/terminal/layout request.  The storage call either
\* returns or raises (contention); asyncio.sleep suspends the task, so the
\* attempts of several requests interleave.

\* attempts of the retry loop
max_retries == 3

\* await asyncio.sleep(0.1 * (attempt + 1)), in milliseconds
retry_delay_ms(attempt) == 100 * (attempt + 1)

\* a request that has not entered the loop body yet
LayoutTask0 == [pc |-> "attempt", attempt |-> 0, outcomes |-> <<>>, slept |-> <<>>]

\* variant: the loop never gives up
update_layouts_with_retry_Unbounded(t, raises) ==
    IF ~raises
    THEN [t EXCEPT !.pc = "returned", !.outcomes = Append(t.outcomes, "ok")]
    ELSE [t EXCEPT !.pc = "sleeping", !.outcomes = Append(t.outcomes, "raised"),
                   !.slept = Append(t.slept, retry_delay_ms(t.attempt))]

\* one pass through the loop body of a task at pc = "attempt": the storage call
\* returns -> return; raises on the last attempt -> raise; raises earlier -> sleep
update_layouts_with_retry(t, raises) ==
    IF ~raises
    THEN [t EXCEPT !.pc = "returned", !.outcomes = Append(t.outcomes, "ok")]
    ELSE IF t.attempt = max_retries - 1
    THEN [t EXCEPT !.pc = "raised", !.outcomes = Append(t.outcomes, "raised")]
    ELSE [t EXCEPT !.pc = "sleeping", !.outcomes = Append(t.outcomes, "raised"),
                   !.slept = Append(t.slept, retry_delay_ms(t.attempt))]

\* PUT /api/terminal/layout arrives with a non-empty list of layouts
LayoutsRequest(r) ==
    /\ r \notin DOMAIN tasks
    /\ tasks' = tasks @@ (r :> LayoutTask0)
    /\ UNCHANGED <<sessions, panes, mux, nextId, nextPane, last, requests, claude_live, verif, reader, bridge, probe, registry>>

\* the task runs pane_crud.update_pane_layouts once
LayoutsAttempt(r, raises) ==
    /\ r \in DOMAIN tasks
    /\ tasks[r].pc = "attempt"
    /\ tasks' = [tasks EXCEPT ![r] = update_layouts_with_retry(tasks[r], raises)]
    /\ UNCHANGED <<sessions, panes, mux, nextId, nextPane, last, requests, claude_live, verif, reader, bridge, probe, registry>>

\* asyncio.sleep returns: the for loop moves to the next attempt
LayoutsWake(r) ==
    /\ r \in DOMAIN tasks
    /\ tasks[r].pc = "sleeping"
    /\ tasks' = [tasks EXCEPT ![r].pc = "attempt", ![r].attempt = tasks[r].attempt + 1]
    /\ UNCHANGED <<sessions, panes, mux, nextId, nextPane, last, requests, claude_live, verif, reader, bridge, probe, registry>>

NextLayouts ==
    \/ \E r \in 1..MaxLayoutRequests : LayoutsRequest(r)
    \/ \E r \in 1..MaxLayoutRequests, raises \in BOOLEAN : LayoutsAttempt(r, raises)
    \/ \E r \in 1..MaxLayoutRequests : LayoutsWake(r)

SpecLayouts == Init /\ [][NextLayouts]_vars

\* ------------------------------------------------------------ properties

\* C1: on the new-creation path (project_id unset, or no dead row for
\* (project_id, mode)), when new-session fails the row inserted by the call is
\* deleted again and the error propagates: the Store rows are those before the
\* call, and no row has the generated id.
C1_CreateRollsBackNewRow ==
    [][\A req \in CreateRequests, project_id \in Projects \cup {NULL}, mode \in Modes :
         ( /\ \/ project_id = NULL
              \/ get_dead_session_by_project(sessions, project_id, mode) = NoId
           /\ CreateSession(req[1], project_id, req[2], mode, FALSE) )
         => /\ last'.raised
            /\ last'.new = NoId
            /\ sessions' = sessions
            /\ nextId \notin DOMAIN sessions'
            /\ mux' = mux]_vars

\* a create on the new path has failed while other rows exist
C1_Witness ==
    /\ last.op = "create"
    /\ last.path = "new"
    /\ last.raised
    /\ DOMAIN sessions # {}

\* C2: create with a project and a dead row d for (project, mode) inserts nothing;
\* d receives the new name and working_dir and is_alive=true, new-session runs
\* for d and d is returned; when new-session fails d is marked dead again, is
\* still in the Store, and the error propagates.
C2_CreateResurrectsDeadRow ==
    [][\A req \in CreateRequests, project_id \in Projects, mode \in Modes,
          muxOk \in BOOLEAN :
         LET d == get_dead_session_by_project(sessions, project_id, mode)
             created == muxOk \/ d \in DOMAIN mux
         IN  (d # NoId /\ CreateSession(req[1], project_id, req[2], mode, muxOk))
             => /\ DOMAIN sessions' = DOMAIN sessions
                /\ nextId' = nextId
                /\ \A i \in (DOMAIN sessions) \ {d} : sessions'[i] = sessions[i]
                /\ sessions'[d] = [sessions[d] EXCEPT !.name = req[1],
                                                      !.working_dir = req[2],
                                                      !.is_alive = created]
                /\ IF created
                   THEN /\ d \in DOMAIN mux'
                        /\ (d \notin DOMAIN mux => mux'[d] = req[2])
                        /\ last'.new = d
                        /\ ~last'.raised
                   ELSE /\ mux' = mux
                        /\ last'.raised]_vars

\* a resurrection has failed and its row is still stored, dead
C2_Witness ==
    /\ last.op = "create"
    /\ last.path = "resurrect"
    /\ last.raised
    /\ last.id \in DOMAIN sessions
    /\ ~sessions[last.id].is_alive

\* C3: ensure_alive(id) returns false and writes nothing without a row; with row
\* and tmux session it returns true and sets is_alive only if it was false; with
\* a row but no tmux session it runs new-session in the row's working_dir and on
\* success sets is_alive=true and returns true (same id, no new row), on failure
\* marks the row dead and returns false.
C3_EnsureAliveCases ==
    [][\A id \in 1..(nextId - 1) \cup SessionIds, muxOk \in BOOLEAN :
         EnsureAlive(id, muxOk)
         => IF id \notin DOMAIN sessions
            THEN ~last'.ok /\ sessions' = sessions /\ mux' = mux
            ELSE IF id \in DOMAIN mux
            THEN /\ last'.ok
                 /\ mux' = mux
                 /\ sessions' = IF sessions[id].is_alive THEN sessions
                                ELSE [sessions EXCEPT ![id].is_alive = TRUE]
            ELSE IF muxOk
            THEN /\ last'.ok
                 /\ mux' = mux @@ (id :> sessions[id].working_dir)
                 /\ sessions' = [sessions EXCEPT ![id].is_alive = TRUE]
                 /\ nextId' = nextId
            ELSE /\ ~last'.ok
                 /\ mux' = mux
                 /\ sessions' = [sessions EXCEPT ![id].is_alive = FALSE]]_vars

\* ensure_alive has re-created the missing tmux session of a row
C3_Witness ==
    /\ last.op = "ensure_alive"
    /\ last.path = "create"
    /\ last.ok
    /\ last.id \in DOMAIN mux
    /\ sessions[last.id].is_alive

\* C4 as stated: after delete(id) neither the row nor the tmux session exists,
\* whatever kill-session did.
C4_DeleteLeavesNothing ==
    last.op = "delete" => (last.id \notin DOMAIN sessions /\ last.id \notin DOMAIN mux)

\* C4: after delete(id) no row with that id exists, for every outcome of
\* kill-session; the tmux session is gone whenever kill-session succeeded or the
\* session was already missing; no other row or tmux session is touched.
C4_DeleteRemovesRow ==
    [][\A id \in 1..(nextId - 1) \cup SessionIds, killOk \in BOOLEAN :
         DeleteSession(id, killOk)
         => /\ id \notin DOMAIN sessions'
            /\ DOMAIN sessions' = (DOMAIN sessions) \ {id}
            /\ \A i \in DOMAIN sessions' : sessions'[i] = sessions[i]
            /\ ((killOk \/ id \notin DOMAIN mux) => id \notin DOMAIN mux')
            /\ \A i \in (DOMAIN mux) \ {id} : i \in DOMAIN mux' /\ mux'[i] = mux[i]
            /\ last'.ok]_vars

\* a delete whose kill-session failed: the row is gone, the tmux session is not
C4_Witness ==
    /\ last.op = "delete"
    /\ last.failed = {last.id}
    /\ last.id \notin DOMAIN sessions
    /\ last.id \in DOMAIN mux

\* C5 as stated: for a row with is_alive=true whose tmux session is missing, a
\* subsequent ensure_alive flips the row to is_alive=false.
C5_EnsureAliveFlipsToDead ==
    [][\A id \in DOMAIN sessions, muxOk \in BOOLEAN :
         (sessions[id].is_alive /\ id \notin DOMAIN mux /\ EnsureAlive(id, muxOk))
         => ~sessions'[id].is_alive]_vars

\* C5: for a row with is_alive=true whose tmux session is missing, a subsequent
\* ensure_alive either re-creates the tmux session (the row stays alive) or, when
\* new-session fails, flips the row to is_alive=false.
C5_EnsureAliveRestores ==
    [][\A id \in DOMAIN sessions, muxOk \in BOOLEAN :
         (sessions[id].is_alive /\ id \notin DOMAIN mux /\ EnsureAlive(id, muxOk))
         => IF muxOk
            THEN sessions'[id].is_alive /\ id \in DOMAIN mux'
            ELSE ~sessions'[id].is_alive /\ id \notin DOMAIN mux']_vars

\* a pane's session, stored alive without a tmux session, was flipped to dead
C5_Witness ==
    /\ last.op = "ensure_alive"
    /\ ~last.ok
    /\ last.id \in DOMAIN sessions
    /\ sessions[last.id].pane_id # NoPane
    /\ ~sessions[last.id].is_alive
    /\ last.id \notin DOMAIN mux

C7_SecondReconcileWritesNothing ==
    [][(last.op = "reconcile" /\ last'.op = "reconcile")
       => (sessions' = sessions /\ mux' = mux)]_vars

\* C7: a second reconcile_on_startup right after the first performs no Store
\* write (no is_alive update, no deletion) and kills only orphan tmux sessions
\* whose kill-session failed in the first invocation: none, if none failed.
C7_SecondReconcileOnlyRetriesKills ==
    [][\A failK \in SUBSET (DOMAIN mux) :
         (last.op = "reconcile" /\ ReconcileOnStartup(failK, {}))
         => /\ sessions' = sessions
            /\ last'.stats.marked_alive = 0
            /\ last'.stats.marked_dead = 0
            /\ last'.stats.purged = 0
            /\ (DOMAIN mux) \ (DOMAIN mux') \subseteq last.failed
            /\ last'.stats.orphans_killed = Cardinality((DOMAIN mux) \ (DOMAIN mux'))
            /\ (last.failed = {} => mux' = mux)]_vars

\* a second invocation in a row, over a Store with rows, that killed an orphan the
\* first one had failed to kill
C7_Witness ==
    /\ last.op = "reconcile"
    /\ last.path = "repeat"
    /\ last.stats.orphans_killed = 1
    /\ DOMAIN sessions # {}

\* C8: the Store never holds more than 4 pane rows.
C8_AtMostFourPanes == Cardinality(DOMAIN panes) <= 4

\* the fourth pane has just been created
C8_Witness ==
    /\ Cardinality(DOMAIN panes) = 4
    /\ last.op = "create_pane"
    /\ last.status = 200

\* C9: with 4 panes stored, a pane creation request is rejected with status 400
\* "Maximum 4 panes allowed..." and the Store (panes and sessions) is unchanged.
C9_FifthPaneRejected ==
    [][\A pane_type \in PaneTypes, project_id \in Projects \cup {NULL},
          failAt \in InsertFailures :
         (Cardinality(DOMAIN panes) = 4
            /\ CreatePane(pane_type, "n1", project_id, "/w1", failAt))
         => /\ last'.status = 400
            /\ last'.detail = "Maximum 4 panes allowed. Close one to add more."
            /\ panes' = panes
            /\ sessions' = sessions
            /\ nextPane' = nextPane
            /\ nextId' = nextId]_vars

\* a creation request was rejected with 4 panes stored
C9_Witness ==
    /\ Cardinality(DOMAIN panes) = 4
    /\ last.op = "create_pane"
    /\ last.status = 400
    /\ last.detail = "Maximum 4 panes allowed. Close one to add more."

\* C10 as stated: every adhoc pane owns exactly 1 session, every project pane
\* exactly 2 (one shell, one claude), and the sessions of a pane carry the
\* pane's project_id.
C10_PaneOwnsItsSessions ==
    \A p \in DOMAIN panes :
        LET own == {i \in DOMAIN sessions : sessions[i].pane_id = p}
        IN  /\ panes[p].pane_type = "adhoc" => Cardinality(own) = 1
            /\ panes[p].pane_type = "project"
                 => /\ Cardinality(own) = 2
                    /\ {sessions[i].mode : i \in own} = {"shell", "claude"}
            /\ \A i \in own : sessions[i].project_id = panes[p].project_id

\* the start requests that issued their conditional update from state E
CasIssuedFrom(E) ==
    {r \in DOMAIN requests : requests[r].current_state = E /\ requests[r].cas # "none"}

\* C11: update_claude_state(id, new, expected_state=E) applies iff the stored
\* state equals E at that moment and returns true iff it applied; of the tasks
\* that issue it concurrently from the same starting state, exactly one gets
\* true and the state advances exactly once.
C11_ConditionalUpdateIsCompareAndSet ==
    /\ [][\A r \in DOMAIN requests :
            (StartCas(r) /\ requests'[r].cas # "none") =>
                LET id == requests[r].id
                    E == requests[r].current_state
                    before == sessions[id].claude_state
                IN  /\ (requests'[r].cas = "applied") <=> (before = E)
                    /\ sessions'[id].claude_state = IF before = E THEN "starting" ELSE before]_vars
    /\ [][\A id \in ClaudeIds :
            (BackgroundVerify(id) /\ id \in DOMAIN sessions) =>
                /\ (sessions'[id].claude_state # sessions[id].claude_state)
                      <=> (sessions[id].claude_state = "starting")
                /\ sessions'[id].claude_state # sessions[id].claude_state
                      => sessions'[id].claude_state \in {"running", "error"}]_vars
    /\ [](CasIssuedFrom("not_started") # {} =>
            Cardinality({r \in CasIssuedFrom("not_started") :
                            requests[r].cas = "applied"}) = 1)

C11_Witness ==
    /\ Cardinality(CasIssuedFrom("not_started")) >= 2
    /\ \E r \in CasIssuedFrom("not_started") : requests[r].cas = "refused"
    /\ \E r \in CasIssuedFrom("not_started") : requests[r].cas = "applied"

\* the start requests addressed to a session
StartsFor(id) == {r \in DOMAIN requests : requests[r].id = id}

\* two or more start requests for a session that was in not_started have all
\* returned, each having found the session not_started or already starting
RacedFromNotStarted(id) ==
    /\ Cardinality(StartsFor(id)) >= 2
    /\ \A r \in StartsFor(id) :
          /\ requests[r].pc = "done"
          /\ requests[r].resp.status = 200
          /\ requests[r].current_state \in {"not_started", "starting"}

C13_StartingLeadsToRunningOrError ==
    \A id \in ClaudeIds :
        (id \in DOMAIN sessions /\ sessions[id].claude_state = "starting")
            ~> (id \in DOMAIN sessions /\ sessions[id].claude_state \in {"running", "error"})

C13_Witness ==
    /\ verif.scheduled[1] = 1
    /\ verif.pending[1] = 0
    /\ sessions[1].claude_state = "error"
    /\ \E r \in StartsFor(1) : requests[r].resp = Resp(200, TRUE, "starting")

IsPrefix(s, t) == Len(s) <= Len(t) /\ SubSeq(t, 1, Len(s)) = s

\* C14: within one bridge the concatenation of the text frames sent is at
\* every moment an order-preserving prefix of the UTF-8 decoding of the octets
\* read from the PTY so far: nothing is reordered, duplicated or dropped
\* between reads and batches.
C14_SentIsPrefixOfDecoded ==
    IsPrefix(reader.sent, DecodeReplace(reader.stream))

\* C15: the reader flushes whenever at least 16 ms have passed since the last
\* flush or the batch holds at least 4 KiB, so whatever the arrival pattern no
\* decoded output waits in the batch buffer for more than 16 ms plus one send
\* (one millisecond is allowed for the send).
C15_BatchWaitsAtMostFlushInterval ==
    reader.pc = "running" =>
        /\ TextLen(reader.batch_buffer) < BATCH_SIZE_LIMIT
        /\ reader.batch_buffer # <<>> => reader.age <= (FLUSH_INTERVAL_MS + 1) * TicksPerMs

\* C19: validate_session_name(s) is true iff s is non-empty, shorter than 256
\* characters and made only of letters, digits, '_', '-' and ':'; a name with any
\* other character (whitespace, newline, shell metacharacter) is rejected.
C19_ValidNameIffCharsetAndLength ==
    probe.asked =>
        (probe.ret <=> /\ probe.name # <<>>
                       /\ NameLen(probe.name) < 256
                       /\ \A i \in 1..Len(probe.name) : InNameClass(probe.name[i].c))

\* C16: on every exit path of a bridge whose PTY was spawned (client
\* disconnect, mux-side exit, internal error) teardown cancels the reader, kills
\* and reaps the child, closes the master fd and removes the registry entry: no
\* unreaped child, open master fd or registry entry of that bridge remains.
C16_TeardownReleasesEverything ==
    (bridge.pc = "closed" /\ bridge.spawned) =>
        /\ bridge.output_task # "running"
        /\ bridge.child = "reaped"
        /\ bridge.master_fd = "closed"
        /\ ~bridge.registered

\* C17: bridge teardown and websocket disconnect leave the multiplexer
\* untouched: the tmux sessions and every row's is_alive are the same after
\* teardown as before it.
C17_TeardownLeavesMuxAndRows ==
    [][(bridge.pc = "open" /\ bridge'.pc = "closed") =>
          /\ mux' = mux
          /\ DOMAIN sessions' = DOMAIN sessions
          /\ \A i \in DOMAIN sessions : sessions'[i].is_alive = sessions[i].is_alive]_vars

C17_Witness ==
    /\ bridge.pc = "closed"
    /\ bridge.spawned
    /\ bridge.close_code = 1000
    /\ tmux_session_exists(mux, 1)
    /\ sessions[1].is_alive

\* C18: a binary frame and a text frame not starting with '{' are written to
\* the PTY unchanged; a '{' frame is parsed as JSON: with a resize key it resizes
\* the PTY and the tmux window and writes nothing, with a truthy refresh key it
\* writes the byte 0x0c; malformed JSON or neither key is written as raw input,
\* so no client frame is silently dropped.
C18_FrameDispatch ==
    [][\A f \in Frames :
          BridgeFrame(f, TRUE) =>
              LET wrote == SubSeq(bridge'.written, Len(bridge.written) + 1,
                                  Len(bridge'.written))
              IN  IF f.type = "bytes" \/ ~f.brace THEN wrote = <<f.payload>>
                  ELSE IF f.json = "resize"
                  THEN /\ wrote = <<>>
                       /\ bridge'.pty_size = "client"
                       /\ bridge'.mux_size = "client"
                  ELSE IF f.json = "refresh" THEN wrote = <<"\\x0c">>
                  ELSE wrote = <<f.payload>>]_vars

\* C20: every session name placed into a tmux or shell command line (base
\* session name, stored target session, claude session name) has passed
\* validate_session_name beforehand: a name that fails validation never reaches
\* a subprocess.
C20_CommandNamesAreValid ==
    \A name \in bridge.commands : validate_session_name(name)

\* C21: for a loopback request with valid names and from = summitflow-<id>,
\* the receiver clears last_target_session of <id> when to is itself a base
\* session and sets it to to otherwise; a request from another peer, with an
\* invalid name, or whose from is not a base session changes no Store state.
C21_SwitchHookStoresOrClears ==
    [][LET loopback == last'.ok
           from == last'.stats.from
           to == last'.stats.to
       IN  last'.op = "session_switch" /\ SessionSwitch(loopback, from, to) =>
              IF /\ loopback
                 /\ validate_session_name(from)
                 /\ validate_session_name(to)
                 /\ IsBaseName(from)
              THEN \A i \in DOMAIN sessions :
                      sessions'[i] =
                        IF i = TerminalIdOf(from)
                        THEN [sessions[i] EXCEPT !.last_claude_session =
                                                    IF IsBaseName(to) THEN NoName ELSE to]
                        ELSE sessions[i]
              ELSE sessions' = sessions]_vars

C21_Witness ==
    /\ last.op = "session_switch"
    /\ last.detail = "cleared"
    /\ 2 \in DOMAIN sessions
    /\ sessions[1].last_claude_session = NoName
    /\ sessions[2].last_claude_session = claude_session_name(1)

C23_DeleteIsIdempotent ==
    [][\A id \in SessionIds, killOk \in BOOLEAN :
          DeleteSession(id, killOk) =>
              /\ last'.ok
              /\ (id \notin DOMAIN sessions /\ id \notin DOMAIN mux
                    => sessions' = sessions /\ mux' = mux)
              /\ \A again \in BOOLEAN :
                    LET d == delete_session(sessions', mux', id, again)
                    IN  d.ret = last'.ok /\ d.store = sessions' /\ d.mux = mux']_vars

\* C23: delete(id) returns true for every id; for an id with no row and no tmux
\* session it changes nothing; a second delete(id) returns true again and leaves
\* the Store as the first left it, and leaves tmux as the first left it whenever
\* the first call killed the tmux session or found none.
C23_DeleteTwiceKeepsStoreAndResult ==
    [][\A id \in SessionIds, killOk \in BOOLEAN :
          DeleteSession(id, killOk) =>
              /\ last'.ok
              /\ (id \notin DOMAIN sessions /\ id \notin DOMAIN mux
                    => sessions' = sessions /\ mux' = mux)
              /\ \A again \in BOOLEAN :
                    LET d == delete_session(sessions', mux', id, again)
                    IN  /\ d.ret = last'.ok
                        /\ d.store = sessions'
                        /\ (killOk \/ id \notin DOMAIN mux => d.mux = mux')]_vars

\* a delete of an id that was never created, beside a live session
C23_Witness ==
    /\ last.op = "delete"
    /\ last.ok
    /\ last.id >= nextId
    /\ last.id \notin DOMAIN sessions
    /\ last.id \notin DOMAIN mux
    /\ DOMAIN sessions # {}
    /\ DOMAIN mux # {}

\* the live rows of (project, mode)
LiveOf(project_id, mode) ==
    {i \in DOMAIN sessions : /\ sessions[i].project_id = project_id
                             /\ sessions[i].mode = mode
                             /\ sessions[i].is_alive}

\* C24: immediately after reset_project(project_id) has returned, for each mode
\* the session_number values of the live sessions of (project_id, mode) are
\* exactly 1..N.
C24_NumbersAreOneToN ==
    (last.op = "reset_project" /\ last.ok) =>
        \A mode \in Modes :
            {sessions[i].session_number : i \in LiveOf("p1", mode)}
                = 1..Cardinality(LiveOf("p1", mode))

\* C25 as stated: after a successful reset_project every session that was live
\* for the project before the call has neither row nor tmux session, and the
\* project has exactly two live sessions, one shell and one claude.
C25_ResetProjectDeletesAllAndCreatesTwo ==
    (last.op = "reset_project" /\ last.ok) =>
        /\ \A i \in last.stats.before : i \notin DOMAIN sessions /\ i \notin DOMAIN mux
        /\ \A mode \in Modes : Cardinality(LiveOf("p1", mode)) = 1

\* C25: after a successful reset_project every session that was live for the
\* project before the call has no row, and no tmux session when its kill-session
\* succeeded or the session was missing; the project has exactly two live
\* sessions, one shell and one claude, the ones the call returned.
C25_ResetProjectDeletesRowsAndCreatesTwo ==
    (last.op = "reset_project" /\ last.ok) =>
        /\ \A i \in last.stats.before :
              /\ i \notin DOMAIN sessions
              /\ (i \notin last.failed => i \notin DOMAIN mux)
        /\ \A mode \in Modes : LiveOf("p1", mode) = {last.stats.ids[mode]}

\* a reset of a project that had two live shell sessions
C25_Witness ==
    /\ last.op = "reset_project"
    /\ last.ok
    /\ Cardinality(last.stats.before) = 2
    /\ last.failed = {}
    /\ Cardinality(LiveOf("p1", "shell")) = 1
    /\ Cardinality(LiveOf("p1", "claude")) = 1

\* C26: reset(id) returns null and changes nothing when no row with that id
\* exists; otherwise (tmux new-session succeeding) it deletes the session and
\* creates one with the same name, project_id, working_dir, user_id, mode and
\* pane_id, and returns the id of the created session.  Stated for both
\* reset_session implementations.
C26_ResetPreservesFields ==
    [][\A id \in SessionIds \cup DOMAIN sessions, killOk \in BOOLEAN :
          (BatchResetSession(id, killOk) \/ ResetSession(id, killOk, TRUE)) =>
              IF id \notin DOMAIN sessions
              THEN last'.new = NoId /\ sessions' = sessions /\ mux' = mux
              ELSE /\ last'.new # NoId
                   /\ last'.new \in DOMAIN sessions'
                   /\ \A f \in {"name", "project_id", "working_dir", "user_id", "mode",
                                "pane_id"} :
                         sessions'[last'.new][f] = sessions[id][f]]_vars

\* C27: create_pane_with_sessions is all-or-nothing.  A call that returns has
\* added the pane row and its session rows, each carrying the new pane's id and
\* project_id, and has changed no other row; a call whose validation or whose
\* pane, shell or claude insert fails leaves no pane or session row behind.
C27_CreatePaneAllOrNothing ==
    /\ \A pane_type \in PaneTypes, project_id \in Projects \cup {NULL},
          failAt \in InsertFailures :
          LET r == create_pane_with_sessions(panes, sessions, nextPane, nextId, nextId + 1,
                                             pane_type, "n1", project_id, "/w1", failAt)
              failed == \/ (pane_type = "project") # (project_id # NULL)
                        \/ failAt \in {"pane", "shell"}
                        \/ (failAt = "claude" /\ pane_type = "project")
              created == (DOMAIN r.store) \ DOMAIN sessions
          IN  /\ r.raised = failed
              /\ failed => r.panes = panes /\ r.store = sessions
              /\ ~failed =>
                    /\ DOMAIN r.panes = DOMAIN panes \cup {nextPane}
                    /\ \A p \in DOMAIN panes : r.panes[p] = panes[p]
                    /\ \A i \in DOMAIN sessions : r.store[i] = sessions[i]
                    /\ {r.store[i].mode : i \in created}
                          = IF pane_type = "project" THEN {"shell", "claude"} ELSE {"shell"}
                    /\ Cardinality(created) = IF pane_type = "project" THEN 2 ELSE 1
                    /\ \A i \in created : /\ r.store[i].pane_id = nextPane
                                          /\ r.store[i].project_id = project_id
    /\ (last.op = "create_pane" /\ last.status = 500) =>
          \A i \in DOMAIN sessions : sessions[i].pane_id \in DOMAIN panes

\* a creation whose insert failed, beside panes created before it
C27_Witness ==
    /\ last.op = "create_pane"
    /\ last.status = 500
    /\ Cardinality(DOMAIN panes) = 2
    /\ Cardinality(DOMAIN sessions) = 3

\* C28: delete_pane removes the pane row and every session row whose pane_id is
\* that pane, and leaves every other pane and session row unchanged; for a
\* pane_id with no pane row it reports not found and changes nothing.
C28_DeletePaneCascades ==
    [][\A pane_id \in PaneIds :
          DeletePane(pane_id) =>
              IF pane_id \in DOMAIN panes
              THEN /\ last'.ok /\ last'.status = 200
                   /\ DOMAIN panes' = (DOMAIN panes) \ {pane_id}
                   /\ \A p \in DOMAIN panes' : panes'[p] = panes[p]
                   /\ DOMAIN sessions' = {i \in DOMAIN sessions : sessions[i].pane_id # pane_id}
                   /\ \A i \in DOMAIN sessions' : sessions'[i] = sessions[i]
              ELSE /\ ~last'.ok /\ last'.status = 404
                   /\ panes' = panes
                   /\ sessions' = sessions]_vars

\* a project pane and its two sessions were deleted beside another pane
C28_Witness ==
    /\ last.op = "delete_pane"
    /\ last.status = 200
    /\ last.id \notin DOMAIN panes
    /\ nextId - 1 > Cardinality(DOMAIN sessions) + 1
    /\ DOMAIN panes # {}
    /\ \A i \in DOMAIN sessions : sessions[i].pane_id \in DOMAIN panes
    /\ DOMAIN sessions # {}

\* the rows the run purges: dead after the row loop and older than the purge age
PurgedRows ==
    {i \in DOMAIN sessions : i \notin DOMAIN mux /\ sessions[i].age > purge_after_days}

\* C29 as stated: the ids for orphan detection are read after the purge, so a
\* tmux session whose row was purged in this run is killed in the same run.
C29_PurgedRowsSessionIsKilled ==
    [][\A started \in {{i} : i \in (DOMAIN sessions) \ DOMAIN mux} :
          \A failK \in SUBSET (DOMAIN mux \cup started) :
          ReconcileOnStartup(failK, started) =>
              \A i \in PurgedRows \cap started :
                  i \notin DOMAIN sessions' /\ i \notin DOMAIN mux']_vars

\* C29: the ids for orphan detection are read after the purge, so a tmux session
\* whose row was purged in this run is an orphan of the same run: kill-session
\* is issued for it and it is gone unless that command fails.
C29_PurgedRowsSessionIsOrphan ==
    [][\A started \in {{i} : i \in (DOMAIN sessions) \ DOMAIN mux} :
          \A failK \in SUBSET (DOMAIN mux \cup started) :
          ReconcileOnStartup(failK, started) =>
              \A i \in PurgedRows \cap started :
                  /\ i \notin DOMAIN sessions'
                  /\ (i \in DOMAIN mux' <=> i \in failK)]_vars

\* a run purged a row whose tmux session came up during the run, and killed it
C29_Witness ==
    /\ last.op = "reconcile"
    /\ last.new = 1
    /\ last.stats.purged = 1
    /\ last.stats.orphans_killed = 1
    /\ last.failed = {}
    /\ DOMAIN mux \subseteq DOMAIN sessions

\* C30: when ensure_session_alive returns false or raises during bridge setup,
\* the WebSocket is closed with code 4000 and a session_dead reason, no PTY is
\* spawned, no registry entry is created, no tmux command of the bridge runs
\* and last_accessed_at of no row is touched.
C30_DeadSessionClosesWith4000 ==
    [][\A muxOk \in BOOLEAN, targetExists \in BOOLEAN, spawnOk \in BOOLEAN,
          raises \in BOOLEAN :
          (/\ BridgeConnect(muxOk, targetExists, spawnOk, raises)
           /\ (raises \/ ~ensure_session_alive(sessions, mux, 1, muxOk).ret)) =>
              /\ bridge'.pc = "closed"
              /\ bridge'.close_code = 4000
              /\ bridge'.close_reason = "session_dead"
              /\ ~bridge'.spawned
              /\ bridge'.master_fd = "none"
              /\ bridge'.child = "none"
              /\ bridge'.output_task = "none"
              /\ ~bridge'.registered
              /\ bridge'.commands = {}
              /\ DOMAIN sessions' = DOMAIN sessions
              /\ \A i \in DOMAIN sessions : sessions'[i].age = sessions[i].age]_vars

\* a connect to a session that could not be restored, long after its last access
C30_Witness ==
    /\ bridge.pc = "closed"
    /\ bridge.close_code = 4000
    /\ bridge.close_reason = "session_dead"
    /\ 1 \in DOMAIN sessions
    /\ ~sessions[1].is_alive
    /\ sessions[1].age > 0
    /\ 1 \notin DOMAIN mux

\* C31: swap_positions(a, b) on two existing panes exchanges their pane_order
\* values and leaves every other pane (and every other column) unchanged, and a
\* second application restores the original table; when fewer than two rows are
\* found the request fails with 404 "One or both panes not found" and nothing
\* changes.
C31_SwapExchangesOrdersOrFails ==
    [][\A a \in {last'.id}, b \in {last'.new} :
        (last'.op = "swap_panes" /\ SwapPanes(a, b)) =>
            IF a # b /\ {a, b} \subseteq DOMAIN panes
            THEN /\ last'.status = 200
                 /\ DOMAIN panes' = DOMAIN panes
                 /\ panes'[a].pane_order = panes[b].pane_order
                 /\ panes'[b].pane_order = panes[a].pane_order
                 /\ \A p \in DOMAIN panes :
                        \A k \in DOMAIN panes[p] :
                            (p \notin {a, b} \/ k # "pane_order") => panes'[p][k] = panes[p][k]
                 /\ swap_pane_positions(panes', a, b).panes = panes
            ELSE /\ panes' = panes
                 /\ last'.status = 404
                 /\ last'.detail = "One or both panes not found"]_vars

\* a swap of two panes with different orders happened while a third pane exists
C31_Witness ==
    /\ last.op = "swap_panes"
    /\ last.status = 200
    /\ Cardinality(DOMAIN panes) >= 3
    /\ panes[last.id].pane_order # panes[last.new].pane_order

\* the pauses a task has taken after its first k failures
BackoffPrefix(k) == [i \in 1..k |-> 100 * i]

\* C32: the bulk layout update is attempted at most 3 times: a task returns
\* right after its first successful attempt, has waited 100 ms after the first
\* failure and 200 ms after the second, and after the third failure raises
\* without a further wait or attempt.
C32_ThreeAttemptsLinearBackoff ==
    \A r \in DOMAIN tasks :
        LET t == tasks[r]
            n == Len(t.outcomes)
            fails == Cardinality({i \in 1..n : t.outcomes[i] = "raised"})
        IN  /\ n <= 3
            /\ \A i \in 1..n : t.outcomes[i] = "ok" => i = n
            /\ t.pc = "returned" <=> (n > 0 /\ t.outcomes[n] = "ok")
            /\ t.pc = "raised" <=> fails = 3
            /\ t.pc = "sleeping" => (fails = n /\ n \in {1, 2})
            /\ t.pc = "attempt" => (fails = n /\ n = t.attempt)
            /\ t.slept = BackoffPrefix(MinOf(fails, 2))

\* one request gave up after three failures while another returned on its
\* third attempt
C32_Witness ==
    \E r1, r2 \in DOMAIN tasks :
        /\ tasks[r1].pc = "raised"
        /\ tasks[r1].slept = <<100, 200>>
        /\ tasks[r2].pc = "returned"
        /\ Len(tasks[r2].outcomes) = 3

\* C33: in every reachable state no adhoc pane has active_mode = claude (the
\* auxiliary mode); a PATCH with active_mode = claude on an adhoc pane is
\* rejected with 400 and changes nothing; and the pane_type of a pane never
\* changes while the pane exists.
C33_AdhocNeverClaude ==
    /\ [](\A p \in DOMAIN panes :
            panes[p].pane_type = "adhoc" => panes[p].active_mode # "claude")
    /\ [][/\ \A p \in DOMAIN panes \cap DOMAIN panes' :
                panes'[p].pane_type = panes[p].pane_type
          /\ \A p \in {last'.id} :
                (/\ last'.op = "update_pane"
                 /\ p \in DOMAIN panes
                 /\ panes[p].pane_type = "adhoc"
                 /\ \E pane_name \in {NULL, "n2"} : UpdatePane(p, pane_name, "claude"))
                => (panes' = panes /\ last'.status = 400)]_vars

\* a PATCH with active_mode = claude was rejected on an adhoc pane and, on
\* another request, applied to a project pane
C33_Witness ==
    /\ last.op = "update_pane"
    /\ last.status = 400
    /\ last.id \in DOMAIN panes
    /\ panes[last.id].pane_type = "adhoc"
    /\ \E p \in DOMAIN panes : panes[p].pane_type = "project" /\ panes[p].active_mode = "claude"

C36_CountAndInsertAreAtomic ==
    /\ count_panes(panes) <= 4
    /\ \A r \in DOMAIN tasks :
        /\ tasks[r].pc = "counted" =>
            /\ tasks[r].count = count_panes(panes)
            /\ \A q \in (DOMAIN tasks) \ {r} : tasks[q].pc # "counted"
        /\ tasks[r].status = 200 => (tasks[r].at_insert = tasks[r].count /\ tasks[r].count < 4)
    /\ \A r, q \in DOMAIN tasks :
        (r # q /\ tasks[r].status = 200 /\ tasks[q].status = 200)
            => ~(tasks[r].count = 3 /\ tasks[q].count = 3)

\* two requests were in flight together while 3 panes existed: one was
\* answered 200 and the other 400
C36_Witness ==
    \E r, q \in DOMAIN tasks :
        /\ r \in tasks[q].peers
        /\ tasks[r].status = 200
        /\ tasks[r].count = 3
        /\ tasks[q].status = 400
        /\ \A x \in (DOMAIN tasks) \ {r, q} : tasks[x].status = 200 /\ tasks[x].count < 3

\* the connections whose bridge is between setup and teardown
ActiveBridges == {c \in DOMAIN tasks : tasks[c].pc \in {"active", "closing"}}

\* C37: the registry holds an entry for the session id exactly while some
\* bridge for that id is between setup and teardown, and the teardown of one
\* bridge neither removes nor replaces the entry of a bridge that stays active.
C37_RegistryTracksActiveBridges ==
    /\ []((1 \in DOMAIN registry) <=> (ActiveBridges # {}))
    /\ [][\A c \in DOMAIN tasks :
            (WsCleanup(c) /\ 1 \in DOMAIN registry /\ registry[1].master_fd # c)
                => (1 \in DOMAIN registry' /\ registry'[1] = registry[1])]_vars

\* two bridges overlapped and the first was torn down: the second is active
\* and the registry is empty
C37_ActiveBridgeWithoutEntry ==
    /\ tasks = <<[pc |-> "closed", close_code |-> 0], [pc |-> "active", close_code |-> 0]>>
    /\ registry = <<>>

\* C38: whenever the octets read from the PTY contain "[exited]", the reader
\* sends it and terminates, however the text is split across reads and batches.
C38_ExitedTerminatesReader ==
    [](HasExited(reader.stream) => <>(reader.pc # "running"))

\* the marker arrives in one read: the property for what the code detects
C38_WholeMarkerTerminatesReader ==
    []((\E i \in 1..Len(reader.stream) : reader.stream[i] = "Z") => <>(reader.pc # "running"))

\* C39 as stated: a failed resurrection leaves the dead row exactly as it was
\* before the call (same name, same working_dir, is_alive = false).
C39_FailedResurrectionLeavesRow ==
    [][\A req \in CreateRequests, project_id \in Projects, mode \in Modes :
         LET d == get_dead_session_by_project(sessions, project_id, mode)
         IN  (/\ d # NoId
              /\ CreateSession(req[1], project_id, req[2], mode, FALSE)
              /\ last'.raised)
             => sessions'[d] = sessions[d]]_vars

\* C39, amended: a failed resurrection leaves the dead row in the table with
\* is_alive = false and every column other than name and working_dir as before
\* the call; name and working_dir are those of the failed call.
C39_FailedResurrectionKeepsRowRenamed ==
    [][\A req \in CreateRequests, project_id \in Projects, mode \in Modes :
         LET d == get_dead_session_by_project(sessions, project_id, mode)
         IN  (/\ d # NoId
              /\ CreateSession(req[1], project_id, req[2], mode, FALSE)
              /\ last'.raised)
             => /\ d \in DOMAIN sessions'
                /\ ~sessions'[d].is_alive
                /\ sessions'[d].name = req[1]
                /\ sessions'[d].working_dir = req[2]
                /\ \A f \in (DOMAIN sessions[d]) \ {"name", "working_dir"} :
                        sessions'[d][f] = sessions[d][f]
                /\ \A i \in (DOMAIN sessions) \ {d} : sessions'[i] = sessions[i]
                /\ DOMAIN sessions' = DOMAIN sessions]_vars

\* a resurrection failed on a row that an earlier call had created under
\* another name and directory
C39_Witness ==
    /\ last.op = "create"
    /\ last.path = "resurrect"
    /\ last.raised
    /\ last.id = 1
    /\ 1 \in DOMAIN sessions
    /\ ~sessions[1].is_alive
    /\ sessions[1].name = "n2"
    /\ sessions[1].working_dir # "/w1"
    /\ DOMAIN sessions = {1}

\* both calls of the pair have returned
PairReturned == tasks # <<>> /\ \A t \in DOMAIN tasks : tasks[t].pc = "returned"

\* C40 as stated: once delete(id) and a concurrent ensure_alive(id) have both
\* returned, there is no tmux session summitflow-<id> without a row id.
C40_PairLeavesNoOrphan ==
    PairReturned =>
        LET id == tasks["delete"].id
        IN  id \in DOMAIN mux => id \in DOMAIN sessions

\* C40, amended: once both have returned, a tmux session summitflow-<id>
\* without a row id exists only if delete's kill-session failed on an existing
\* tmux session.
C40_PairLeavesOrphanOnlyOnFailedKill ==
    PairReturned =>
        LET id == tasks["delete"].id
        IN  (id \in DOMAIN mux /\ id \notin DOMAIN sessions) => tasks["delete"].kill_failed

\* ensure_alive re-created the tmux session of the row, then delete killed it
\* and removed the row
C40_Witness ==
    /\ PairReturned
    /\ tasks["ensure"].created
    /\ tasks["ensure"].ret
    /\ ~tasks["delete"].kill_failed
    /\ tasks["delete"].id \notin DOMAIN mux
    /\ tasks["delete"].id \notin DOMAIN sessions


====
